---- MODULE Spec2Model ----
(***************************************************************************)
(* Verification model of recipes_generator2.0: the substitution-and-       *)
(* combination engine (src/core/engine.py, legacy src/engine.py and        *)
(* src/generator.py), the RecipeService generation run, the localization   *)
(* batch generator and the BatchItem loader.                               *)
(*                                                                         *)
(* Python strings are sequences of one-character strings.  A Python dict   *)
(* (insertion ordered) is a sequence of records [k |-> key, v |-> value]   *)
(* with pairwise distinct keys.  Iteration over a Python set of strings    *)
(* has no order the program controls (string hashes are randomised per     *)
(* process), so it is a nondeterministic choice of an ordering.            *)
(***************************************************************************)
EXTENDS Integers, Sequences, FiniteSets, TLC

VARIABLES
    \* ---- namespace resolution (NamespaceResolver.resolve / _resolve)
    r_pc, value, resolved_legacy, resolved_core,
    \* ---- engine configuration and one template
    default_namespace, rules, placeholders,
    \* ---- combination generation: the core engine's list, the legacy
    \*      generator's tuples and the dicts RecipeGenerator zips from them
    g_pc, combos, legacy_tuples, legacy_combos,
    \* ---- apply: one content and one combination, through both engines,
    \*      and the core engine once more on its own output
    e_pc, content, combination, result_core, result_legacy, result_again,
    \* ---- RecipeService (src/service/recipe_service.py): its fields, the
    \*      configured templates, the worker thread and the OutputWriter
    is_running, cancel_requested, processed_count, current_template_name,
    total_templates, template_files, dry_run,
    w_pc, w_templates, w_tpl, w_combos, w_combo,
    writer_total, writer_returned, files,
    \*      (writer_returned counts the write calls that returned a path)
    \* ---- what one run did: outputs written, callbacks invoked, the flag
    \*      value the last combination check read
    runs, run_written, on_complete_invoked, on_error_invoked, flag_at_check,
    flag_at_raise,
    \* ---- LocalizationEngine (src/core/localization_engine.py): its items,
    \*      its loaded templates, and one generate_batch call
    items, templates, template_name, b_pc, b_idx, results, attempted,
    \* ---- BatchItemDAO.load (src/dao/batch_item_dao.py): raw_data["items"],
    \*      the loop's position, the local items_dict, what the call raised
    \*      and what it returned
    records, l_pc, l_idx, items_dict, l_error, l_returned,
    \* ---- one Template (src/model/template.py) taken through
    \*      _process_template: its file name, content and placeholders, the
    \*      combinations generated for it, and the (filename, content) pairs
    \*      handed to the writer by RecipeService and by RecipeGenerator
    t_pc, t_name, t_content, t_placeholders, t_combos, t_outputs, t_legacy_outputs,
    \* ---- apply(content, combo, explain_log): the explain_log argument
    \*      (None or a list of lines) and the list after the call to the
    \*      core engine and after the call to the legacy engine
    explain_log, log_core, log_legacy,
    \* ---- LocalizerService (src/service/localizer_service.py): self.stats
    stats,
    \* ---- SettingsService (src/service/settings_service.py): whether
    \*      self.config is set, the list Config._template_files, and the
    \*      add_template / remove_template calls made so far with what
    \*      each returned
    config_loaded, _template_files, s_calls,
    \* ---- start_generation called from several threads: where each caller
    \*      is in the call, what the call returned, and the number of live
    \*      _run_internal threads
    c_pc, c_returned, threads

resolveVars == << r_pc, value, resolved_legacy, resolved_core >>
configVars  == << default_namespace, rules, placeholders >>
comboVars   == << g_pc, combos, legacy_tuples, legacy_combos >>
applyVars   == << e_pc, content, combination, result_core, result_legacy, result_again >>

serviceVars == << is_running, cancel_requested, processed_count,
                  current_template_name, total_templates, template_files, dry_run >>
workerVars  == << w_pc, w_templates, w_tpl, w_combos, w_combo >>
writerVars  == << writer_total, writer_returned, files >>
runLogVars  == << runs, run_written, on_complete_invoked, on_error_invoked,
                  flag_at_check, flag_at_raise >>
runVars     == << serviceVars, workerVars, writerVars, runLogVars >>

batchVars   == << items, templates, template_name, b_pc, b_idx, results, attempted >>

loadVars    == << records, l_pc, l_idx, items_dict, l_error, l_returned >>

templateVars == << t_pc, t_name, t_content, t_placeholders, t_combos, t_outputs,
                  t_legacy_outputs >>

explainVars == << explain_log, log_core, log_legacy >>

statsVars   == << stats >>

settingsVars == << config_loaded, _template_files, s_calls >>

startVars   == << c_pc, c_returned, threads >>

extraVars   == << explainVars, statsVars, settingsVars, startVars >>

vars == << resolveVars, configVars, comboVars, applyVars, runVars, batchVars, loadVars,
          templateVars, extraVars >>

(***************************************************************************)
(* Bounds of the model.                                                    *)
(***************************************************************************)
MaxValueLen == 3
MaxRules    == 2
MaxTemplates == 2
MaxCombos   == 2
MaxRuns     == 2
MaxCalls    == 3
MaxCallers  == 2
MaxItems    == 3
MaxRecords  == 3
MaxPieces   == 3
MaxTokens   == 2

(***************************************************************************)
(* String literals of the program.                                         *)
(***************************************************************************)
Colon      == ":"
Underscore == "_"
Minecraft  == << "m", "i", "n", "e", "c", "r", "a", "f", "t", ":" >>
Star       == << "*" >>
Empty      == << >>

(***************************************************************************)
(* Python str primitives.                                                  *)
(***************************************************************************)
\* x in s, for a one-character x
HasChar(s, c) == \E i \in 1..Len(s) : s[i] = c

\* s.startswith(p) at position i (1-based): p occurs in s at i
OccursAt(s, p, i) ==
    /\ i >= 1
    /\ i + Len(p) - 1 <= Len(s)
    /\ \A j \in 1..Len(p) : s[i + j - 1] = p[j]

\* old in s
Contains(s, old) == \E i \in 1..(Len(s) + 1) : OccursAt(s, old, i)

\* s.replace(old, new): every non-overlapping occurrence, scanning from the
\* left; an empty old puts new before every character and at the end.
RECURSIVE ReplaceFrom(_, _, _, _)
ReplaceFrom(s, old, new, i) ==
    IF i > Len(s) THEN << >>
    ELSE IF OccursAt(s, old, i)
         THEN new \o ReplaceFrom(s, old, new, i + Len(old))
         ELSE << s[i] >> \o ReplaceFrom(s, old, new, i + 1)

RECURSIVE Interleave(_, _, _)
Interleave(s, new, i) ==
    IF i > Len(s) THEN new
    ELSE new \o << s[i] >> \o Interleave(s, new, i + 1)

Replace(s, old, new) ==
    IF old = << >> THEN Interleave(s, new, 1) ELSE ReplaceFrom(s, old, new, 1)

\* index of the first occurrence of the character c in s (0 when absent)
RECURSIVE FindFrom(_, _, _)
FindFrom(s, c, i) ==
    IF i > Len(s) THEN 0
    ELSE IF s[i] = c THEN i ELSE FindFrom(s, c, i + 1)

\* index of the last occurrence of the character c in s (0 when absent)
RECURSIVE RFindFrom(_, _, _)
RFindFrom(s, c, i) ==
    IF i < 1 THEN 0
    ELSE IF s[i] = c THEN i ELSE RFindFrom(s, c, i - 1)

\* the parts of s around its last separator c
SplitLast(s, c) ==
    LET i == RFindFrom(s, c, Len(s))
    IN  << SubSeq(s, 1, i - 1), SubSeq(s, i + 1, Len(s)) >>

\* value.split(c)[0], value.split(c)[1]: the name ends at the next separator
SplitFirstTwo(s, c) ==
    LET i    == FindFrom(s, c, 1)
        rest == SubSeq(s, i + 1, Len(s))
        j    == FindFrom(rest, c, 1)
    IN  << SubSeq(s, 1, i - 1), IF j = 0 THEN rest ELSE SubSeq(rest, 1, j - 1) >>

SplitFirst(s, c) ==
    LET i == FindFrom(s, c, 1)
    IN  << SubSeq(s, 1, i - 1), SubSeq(s, i + 1, Len(s)) >>

(***************************************************************************)
(* Namespace resolution.                                                   *)
(***************************************************************************)
\* src/engine.py NamespaceResolver.resolve
NamespaceResolver_resolve(val, default_ns) ==
    IF HasChar(val, Colon)
    THEN LET parts == SplitFirst(val, Colon)
         IN  << parts[2], parts[1] \o << Colon >>, parts[1] \o << Underscore >> >>
    ELSE << val, default_ns,
            IF default_ns = Minecraft THEN Empty
            ELSE Replace(default_ns, << Colon >>, << Underscore >>) >>

\* src/core/engine.py ReplacementEngine._resolve (self.default_ns = default_ns)
Core_resolve(val, default_ns) ==
    IF HasChar(val, Colon)
    THEN LET parts == SplitFirst(val, Colon)
         IN  << parts[2], parts[1] \o << Colon >>, parts[1] \o << Underscore >> >>
    ELSE << val, default_ns,
            IF default_ns = Minecraft THEN Empty
            ELSE Replace(default_ns, << Colon >>, << Underscore >>) >>

(***************************************************************************)
(* Python dict and list primitives.                                        *)
(***************************************************************************)
\* list(d.keys())
DictKeys(d) == [i \in 1..Len(d) |-> d[i].k]

\* key in d
DictHas(d, key) == \E i \in 1..Len(d) : d[i].k = key

\* d[key], for a key of d
DictGet(d, key) == d[CHOOSE i \in 1..Len(d) : d[i].k = key].v

\* d[key] = val: a present key keeps its place and takes the new value
DictPut(d, key, val) ==
    IF DictHas(d, key)
    THEN [i \in 1..Len(d) |-> IF d[i].k = key THEN [k |-> key, v |-> val] ELSE d[i]]
    ELSE Append(d, [k |-> key, v |-> val])

\* dict(zip(keys, vals)): pairs up to the shorter of the two
RECURSIVE DictZipFrom(_, _, _)
DictZipFrom(keys, vals, i) ==
    IF i > Len(keys) \/ i > Len(vals) THEN << >>
    ELSE LET rest == DictZipFrom(keys, vals, i + 1)
         IN  IF DictHas(rest, keys[i])
             THEN << [k |-> keys[i], v |-> DictGet(rest, keys[i])] >>
                  \o SelectSeq(rest, LAMBDA e : e.k # keys[i])
             ELSE << [k |-> keys[i], v |-> vals[i]] >> \o rest

DictZip(keys, vals) == DictZipFrom(keys, vals, 1)

\* the elements of a list, as a set
Range(s) == { s[i] : i \in 1..Len(s) }

\* the orders in which iterating a set can yield its elements
Orderings(S) ==
    { o \in [1..Cardinality(S) -> S] : \A i, j \in 1..Cardinality(S) : i # j => o[i] # o[j] }

\* itertools.product(*lists): the first list varies slowest
PrependAll(v, tuples) == [i \in 1..Len(tuples) |-> << v >> \o tuples[i]]

RECURSIVE ConcatPrepend(_, _, _)
ConcatPrepend(vals, tuples, i) ==
    IF i > Len(vals) THEN << >>
    ELSE PrependAll(vals[i], tuples) \o ConcatPrepend(vals, tuples, i + 1)

\* zip(*lists) in place of itertools.product(*lists)
MinLen(lists) ==
    IF lists = << >> THEN 0
    ELSE CHOOSE n \in { Len(lists[j]) : j \in 1..Len(lists) } :
            \A j \in 1..Len(lists) : n <= Len(lists[j])

ZipLists(lists) ==
    [i \in 1..MinLen(lists) |-> [j \in 1..Len(lists) |-> lists[j][i]]]

RECURSIVE Product(_)
Product(lists) ==
    IF lists = << >> THEN << << >> >>
    ELSE ConcatPrepend(Head(lists), Product(Tail(lists)), 1)

(***************************************************************************)
(* Combination generation.                                                 *)
(***************************************************************************)
\* src/core/engine.py __init__: self.rules = {r.type: r for r in rules}
RECURSIVE Core_index_from(_, _)
Core_index_from(rs, i) ==
    IF i = 0 THEN << >>
    ELSE DictPut(Core_index_from(rs, i - 1), rs[i].type, rs[i])

Core_index(rs) == Core_index_from(rs, Len(rs))

\* src/service/recipe_service.py _initialize_components: the engine is built
\* from Config.rules, the whole list (Config.rules copies self._rules)
Service_engine_rules(rs) == Core_index(rs)

\* src/core/engine.py generate_combinations; `order` is the order in which
\* `for t in needed` yields the set `needed = set(template.placeholders)`
Core_generate_combinations(index, order) ==
    LET present      == SelectSeq(order, LAMBDA t : DictHas(index, t))
        active_rules == [i \in 1..Len(present) |-> DictGet(index, present[i])]
        value_lists  == [i \in 1..Len(active_rules) |-> active_rules[i].values]
        type_names   == [i \in 1..Len(active_rules) |-> active_rules[i].type]
        product      == Product(value_lists)
    IN  IF active_rules = << >> THEN << >>
        ELSE [i \in 1..Len(product) |-> DictZip(type_names, product[i])]

\* src/config.py ConfigManager.get_active_rules
get_active_rules(rs) == SelectSeq(rs, LAMBDA r : r.enabled)

\* src/engine.py CombinationGenerator.generate
CombinationGenerator_generate(rs, needed_types) ==
    LET active_rules == SelectSeq(rs, LAMBDA r : r.type \in needed_types)
        value_lists  == [i \in 1..Len(active_rules) |-> active_rules[i].values]
    IN  IF active_rules = << >> THEN << >> ELSE Product(value_lists)

\* src/generator.py _process_template: combo_dict = dict(zip(template.placeholders,
\* combo)); template.placeholders is a set (src/template.py _scan), `order` is
\* the order its iteration yields
RecipeGenerator_combo_dicts(tuples, order) ==
    [i \in 1..Len(tuples) |-> DictZip(order, tuples[i])]

(***************************************************************************)
(* ReplacementEngine.apply (core engine, src/core/engine.py).              *)
(***************************************************************************)
\* f"{{{r_type}}}"
Placeholder(t) == << "{" >> \o t \o << "}" >>

ModidToken     == << "{", "m", "o", "d", "i", "d", "}" >>
ModidSafeToken == << "{", "m", "o", "d", "i", "d", "_", "s", "a", "f", "e", "}" >>

\* for old, new in mapping.items(): if old in result: result = result.replace(old, new)
RECURSIVE ApplyPairsGuarded(_, _, _)
ApplyPairsGuarded(text, pairs, i) ==
    IF i > Len(pairs) THEN text
    ELSE ApplyPairsGuarded(
            IF Contains(text, pairs[i].k) THEN Replace(text, pairs[i].k, pairs[i].v) ELSE text,
            pairs, i + 1)

\* for old, new in mapping.items(): result = result.replace(old, new)
RECURSIVE ApplyPairs(_, _, _)
ApplyPairs(text, pairs, i) ==
    IF i > Len(pairs) THEN text
    ELSE ApplyPairs(Replace(text, pairs[i].k, pairs[i].v), pairs, i + 1)

\* _parse_combo: {r_type: self._resolve(value) for r_type, value in combo.items()}
Core_parse_combo(combo, default_ns) ==
    [i \in 1..Len(combo) |-> [k |-> combo[i].k, v |-> Core_resolve(combo[i].v, default_ns)]]

\* type placeholders replaced by the full value, namespace included
RECURSIVE ApplyTypePlaceholders_FullValue(_, _, _)
ApplyTypePlaceholders_FullValue(text, info, i) ==
    IF i > Len(info) THEN text
    ELSE ApplyTypePlaceholders_FullValue(
            Replace(text, Placeholder(info[i].k), info[i].v[2] \o info[i].v[1]), info, i + 1)

\* the type placeholders of _apply_basic, one info entry after the other
RECURSIVE ApplyTypePlaceholders(_, _, _)
ApplyTypePlaceholders(text, info, i) ==
    IF i > Len(info) THEN text
    ELSE ApplyTypePlaceholders(Replace(text, Placeholder(info[i].k), info[i].v[1]), info, i + 1)

\* modid_safe of a modid
SafeOf(modid) ==
    IF modid = Minecraft THEN Empty ELSE Replace(modid, << Colon >>, << Underscore >>)

\* a basic pass that takes the namespace of the last type of the combination
Core_apply_basic_LastType(text, combo, info, default_ns) ==
    LET modid == IF combo # << >> THEN info[Len(info)].v[2] ELSE default_ns
        r1    == Replace(text, ModidToken, modid)
        r2    == Replace(r1, ModidSafeToken, SafeOf(modid))
    IN  ApplyTypePlaceholders(r2, info, 1)

\* _apply_basic: `if first_type` is false for no key and for the empty key
Core_apply_basic(text, combo, info, default_ns) ==
    LET modid == IF combo # << >> /\ combo[1].k # Empty THEN info[1].v[2] ELSE default_ns
        r1    == Replace(text, ModidToken, modid)
        r2    == Replace(r1, ModidSafeToken, SafeOf(modid))
    IN  ApplyTypePlaceholders(r2, info, 1)

\* the tiers of one rule run from the full value down to the wildcard
Core_rule_tiers_FullFirst(text, rule, name, namespace) ==
    LET full_value == namespace \o name
        extra      == rule.extra
        t1 == IF DictHas(extra, full_value)
              THEN ApplyPairsGuarded(text, DictGet(extra, full_value), 1) ELSE text
        t2 == IF DictHas(extra, name)
              THEN ApplyPairsGuarded(t1, DictGet(extra, name), 1) ELSE t1
        t3 == IF DictHas(extra, Star)
              THEN ApplyPairsGuarded(t2, DictGet(extra, Star), 1) ELSE t2
    IN  t3

\* the three tiers of one rule of _apply_extra, in the order the code runs them
Core_rule_tiers(text, rule, name, namespace) ==
    LET full_value == namespace \o name
        extra      == rule.extra
        t1 == IF DictHas(extra, Star)
              THEN ApplyPairsGuarded(text, DictGet(extra, Star), 1) ELSE text
        t2 == IF DictHas(extra, name)
              THEN ApplyPairsGuarded(t1, DictGet(extra, name), 1) ELSE t1
        t3 == IF DictHas(extra, full_value)
              THEN ApplyPairsGuarded(t2, DictGet(extra, full_value), 1) ELSE t2
    IN  t3

\* an override pass that also runs the "*" tier of the rules whose type the
\* combination does not hold
RECURSIVE Core_apply_extra_AllRules(_, _, _, _, _)
Core_apply_extra_AllRules(text, combo, info, index, i) ==
    IF i > Len(index) THEN text
    ELSE IF ~DictHas(combo, index[i].k)
         THEN Core_apply_extra_AllRules(
                  IF DictHas(index[i].v.extra, Star)
                  THEN ApplyPairsGuarded(text, DictGet(index[i].v.extra, Star), 1) ELSE text,
                  combo, info, index, i + 1)
         ELSE LET triple == DictGet(info, index[i].k)
              IN  Core_apply_extra_AllRules(
                      Core_rule_tiers(text, index[i].v, triple[1], triple[2]),
                      combo, info, index, i + 1)

\* _apply_extra: for r_type, rule in self.rules.items()
RECURSIVE Core_apply_extra(_, _, _, _, _)
Core_apply_extra(text, combo, info, index, i) ==
    IF i > Len(index) THEN text
    ELSE IF ~DictHas(combo, index[i].k)
         THEN Core_apply_extra(text, combo, info, index, i + 1)
         ELSE LET triple == DictGet(info, index[i].k)
              IN  Core_apply_extra(
                      Core_rule_tiers(text, index[i].v, triple[1], triple[2]),
                      combo, info, index, i + 1)

\* the placeholders of the rule types the combination does not select, blanked
RECURSIVE BlankUnselected(_, _, _, _)
BlankUnselected(text, combo, index, i) ==
    IF i > Len(index) THEN text
    ELSE BlankUnselected(
            IF DictHas(combo, index[i].k) THEN text
            ELSE Replace(text, Placeholder(index[i].k), Empty),
            combo, index, i + 1)

\* an apply that blanks the placeholders it has no value for
Core_apply_BlankUnselected(text, combo, index, default_ns) ==
    LET info == Core_parse_combo(combo, default_ns)
    IN  BlankUnselected(
            Core_apply_extra(Core_apply_basic(text, combo, info, default_ns), combo, info, index, 1),
            combo, index, 1)

\* apply(content, combo) of an engine built with (default_ns, rules)
Core_apply(text, combo, index, default_ns) ==
    LET info == Core_parse_combo(combo, default_ns)
    IN  Core_apply_extra(Core_apply_basic(text, combo, info, default_ns), combo, info, index, 1)

(***************************************************************************)
(* ReplacementEngine.apply (legacy engine, src/engine.py).                 *)
(***************************************************************************)
Legacy_parse_combo(combo, default_ns) ==
    [i \in 1..Len(combo) |->
        [k |-> combo[i].k, v |-> NamespaceResolver_resolve(combo[i].v, default_ns)]]

\* _apply_basic: first_type is None for an empty combo, and None is not in info
Legacy_apply_basic(text, combo, info, default_ns) ==
    LET modid == IF combo # << >> THEN info[1].v[2] ELSE default_ns
        r1    == Replace(text, ModidToken, modid)
        r2    == Replace(r1, ModidSafeToken, SafeOf(modid))
    IN  ApplyTypePlaceholders(r2, info, 1)

\* the two tiers of one rule of the legacy _apply_extra: the name, then "*"
Legacy_rule_tiers(text, rule, name) ==
    LET extra == rule.extra
        t1 == IF DictHas(extra, name) THEN ApplyPairs(text, DictGet(extra, name), 1) ELSE text
        t2 == IF DictHas(extra, Star) THEN ApplyPairs(t1, DictGet(extra, Star), 1) ELSE t1
    IN  t2

\* _apply_extra: for rule in self.config.get_active_rules()
RECURSIVE Legacy_apply_extra(_, _, _, _, _)
Legacy_apply_extra(text, combo, info, active, i) ==
    IF i > Len(active) THEN text
    ELSE IF ~DictHas(combo, active[i].type)
         THEN Legacy_apply_extra(text, combo, info, active, i + 1)
         ELSE Legacy_apply_extra(
                  Legacy_rule_tiers(text, active[i], DictGet(info, active[i].type)[1]),
                  combo, info, active, i + 1)

Legacy_apply(text, combo, rs, default_ns) ==
    LET info == Legacy_parse_combo(combo, default_ns)
    IN  Legacy_apply_extra(Legacy_apply_basic(text, combo, info, default_ns),
                           combo, info, get_active_rules(rs), 1)

(***************************************************************************)
(* apply with its explain_log argument.  The argument is None or a list;   *)
(* it is the record [given, lines]: `log is not None` is log.given and the *)
(* truth value `if log:` is log.given /\ log.lines # << >>.  A line is the *)
(* record of the parts its f-string is formatted from.  Each operator      *)
(* returns the text and the log after the pass.                            *)
(***************************************************************************)
NoLog == [ given |-> FALSE, lines |-> << >> ]

LogLine(kind, key, old, new) == [ kind |-> kind, key |-> key, old |-> old, new |-> new ]

\* log.append(line)
LogAppend(log, line) == [ given |-> log.given, lines |-> Append(log.lines, line) ]

\* `if log:`
Truthy(log) == log.given /\ log.lines # << >>

\* a type-placeholder loop that logs a line for every type of the combination
RECURSIVE Core_apply_basic_types_EveryType(_, _, _, _)
Core_apply_basic_types_EveryType(text, info, log, i) ==
    IF i > Len(info) THEN [ result |-> text, log |-> log ]
    ELSE LET placeholder == Placeholder(info[i].k)
             name        == info[i].v[1]
         IN  Core_apply_basic_types_EveryType(
                 Replace(text, placeholder, name), info,
                 IF log.given
                 THEN LogAppend(log, LogLine("replace", Empty, placeholder, name)) ELSE log,
                 i + 1)

\* _apply_basic: for r_type, (name, _, _) in info.items(), with
\* `if placeholder in result and log is not None: log.append(...)`
RECURSIVE Core_apply_basic_types(_, _, _, _)
Core_apply_basic_types(text, info, log, i) ==
    IF i > Len(info) THEN [ result |-> text, log |-> log ]
    ELSE LET placeholder == Placeholder(info[i].k)
             name        == info[i].v[1]
         IN  Core_apply_basic_types(
                 Replace(text, placeholder, name), info,
                 IF Contains(text, placeholder) /\ log.given
                 THEN LogAppend(log, LogLine("replace", Empty, placeholder, name)) ELSE log,
                 i + 1)

\* _apply_basic(content, combo, info, log) of the core engine
Core_apply_basic_explain(text, combo, info, default_ns, log) ==
    LET modid == IF combo # << >> /\ combo[1].k # Empty THEN info[1].v[2] ELSE default_ns
        r1    == Replace(text, ModidToken, modid)
        r2    == Replace(r1, ModidSafeToken, SafeOf(modid))
    IN  Core_apply_basic_types(r2, info, log, 1)

\* for old, new in extra[key].items(): if old in result:
\*     if log: log.append(...)
\*     result = result.replace(old, new)
RECURSIVE Core_tier_explain(_, _, _, _, _, _)
Core_tier_explain(text, kind, key, pairs, log, i) ==
    IF i > Len(pairs) THEN [ result |-> text, log |-> log ]
    ELSE IF Contains(text, pairs[i].k)
         THEN Core_tier_explain(
                  Replace(text, pairs[i].k, pairs[i].v), kind, key, pairs,
                  IF Truthy(log)
                  THEN LogAppend(log, LogLine(kind, key, pairs[i].k, pairs[i].v)) ELSE log,
                  i + 1)
         ELSE Core_tier_explain(text, kind, key, pairs, log, i + 1)

\* the three tiers of one rule of _apply_extra, with the log
Core_rule_tiers_explain(text, rule, name, namespace, log) ==
    LET full_value == namespace \o name
        extra      == rule.extra
        t1 == IF DictHas(extra, Star)
              THEN Core_tier_explain(text, "wildcard", Star, DictGet(extra, Star), log, 1)
              ELSE [ result |-> text, log |-> log ]
        t2 == IF DictHas(extra, name)
              THEN Core_tier_explain(t1.result, "name", name, DictGet(extra, name), t1.log, 1)
              ELSE t1
        t3 == IF DictHas(extra, full_value)
              THEN Core_tier_explain(t2.result, "full", full_value,
                                     DictGet(extra, full_value), t2.log, 1)
              ELSE t2
    IN  t3

\* _apply_extra(content, combo, info, log) of the core engine
RECURSIVE Core_apply_extra_explain(_, _, _, _, _, _)
Core_apply_extra_explain(text, combo, info, index, log, i) ==
    IF i > Len(index) THEN [ result |-> text, log |-> log ]
    ELSE IF ~DictHas(combo, index[i].k)
         THEN Core_apply_extra_explain(text, combo, info, index, log, i + 1)
         ELSE LET triple == DictGet(info, index[i].k)
                  t      == Core_rule_tiers_explain(text, index[i].v, triple[1], triple[2], log)
              IN  Core_apply_extra_explain(t.result, combo, info, index, t.log, i + 1)

\* apply(content, combo, explain_log) of the core engine
Core_apply_explain(text, combo, index, default_ns, log) ==
    LET info  == Core_parse_combo(combo, default_ns)
        basic == Core_apply_basic_explain(text, combo, info, default_ns, log)
    IN  Core_apply_extra_explain(basic.result, combo, info, index, basic.log, 1)

\* legacy _apply_basic: the same loop, `explain_log is not None`
Legacy_apply_basic_explain(text, combo, info, default_ns, log) ==
    LET modid == IF combo # << >> THEN info[1].v[2] ELSE default_ns
        r1    == Replace(text, ModidToken, modid)
        r2    == Replace(r1, ModidSafeToken, SafeOf(modid))
    IN  Core_apply_basic_types(r2, info, log, 1)

\* for old, new in extra[key].items():
\*     if old in result and explain_log is not None: explain_log.append(...)
\*     result = result.replace(old, new)
RECURSIVE Legacy_tier_explain(_, _, _, _, _, _)
Legacy_tier_explain(text, kind, key, pairs, log, i) ==
    IF i > Len(pairs) THEN [ result |-> text, log |-> log ]
    ELSE Legacy_tier_explain(
             Replace(text, pairs[i].k, pairs[i].v), kind, key, pairs,
             IF Contains(text, pairs[i].k) /\ log.given
             THEN LogAppend(log, LogLine(kind, key, pairs[i].k, pairs[i].v)) ELSE log,
             i + 1)

\* the two tiers of one rule of the legacy _apply_extra, with the log
Legacy_rule_tiers_explain(text, rule, name, log) ==
    LET extra == rule.extra
        t1 == IF DictHas(extra, name)
              THEN Legacy_tier_explain(text, "specific", name, DictGet(extra, name), log, 1)
              ELSE [ result |-> text, log |-> log ]
        t2 == IF DictHas(extra, Star)
              THEN Legacy_tier_explain(t1.result, "wildcard", Star,
                                       DictGet(extra, Star), t1.log, 1)
              ELSE t1
    IN  t2

\* legacy _apply_extra(content, combo, info, explain_log)
RECURSIVE Legacy_apply_extra_explain(_, _, _, _, _, _)
Legacy_apply_extra_explain(text, combo, info, active, log, i) ==
    IF i > Len(active) THEN [ result |-> text, log |-> log ]
    ELSE IF ~DictHas(combo, active[i].type)
         THEN Legacy_apply_extra_explain(text, combo, info, active, log, i + 1)
         ELSE LET t == Legacy_rule_tiers_explain(
                           text, active[i], DictGet(info, active[i].type)[1], log)
              IN  Legacy_apply_extra_explain(t.result, combo, info, active, t.log, i + 1)

\* apply(content, combo, explain_log) of the legacy engine
Legacy_apply_explain(text, combo, rs, default_ns, log) ==
    LET info  == Legacy_parse_combo(combo, default_ns)
        basic == Legacy_apply_basic_explain(text, combo, info, default_ns, log)
    IN  Legacy_apply_extra_explain(basic.result, combo, info, get_active_rules(rs), basic.log, 1)

(***************************************************************************)
(* BatchItem (src/model/batch_item.py).  A field read from JSON null is    *)
(* None, which is no string.                                               *)
(***************************************************************************)
None == << "None" >>

Whitespace == { " ", "\t", "\n", "\r" }

\* self.id.split(":")[-1]
get_key_prefix(item) ==
    IF HasChar(item.id, Colon) THEN SplitLast(item.id, Colon)[2] ELSE item.id

\* a skip check that takes a pattern for the whole key template
should_skip_template_WholeKey(item, template_key) ==
    \E i \in 1..Len(item.skip_patterns) : template_key = item.skip_patterns[i]

\* any(pattern in template_key for pattern in self.skip_patterns)
should_skip_template(item, template_key) ==
    \E i \in 1..Len(item.skip_patterns) : Contains(template_key, item.skip_patterns[i])

\* no key is metadata
IsMetadataKey_Never(old) == FALSE

\* old.startswith("_")
IsMetadataKey(old) == Len(old) >= 1 /\ old[1] = Underscore

\* the replacement loop of apply_replacements
RECURSIVE ApplyItemReplacements(_, _, _)
ApplyItemReplacements(text, pairs, i) ==
    IF i > Len(pairs) THEN text
    ELSE ApplyItemReplacements(
            IF IsMetadataKey(pairs[i].k) THEN text ELSE Replace(text, pairs[i].k, pairs[i].v),
            pairs, i + 1)

\* ''.join(result.split())
RemoveWhitespace(text) == SelectSeq(text, LAMBDA c : c \notin Whitespace)

apply_replacements(item, text) ==
    RemoveWhitespace(ApplyItemReplacements(text, item.replacements, 1))

get_modid_safe(item) ==
    IF item.namespace = Minecraft THEN Empty
    ELSE Replace(item.namespace, << Colon >>, << Underscore >>)

(***************************************************************************)
(* LocalizationEngine (src/core/localization_engine.py).                   *)
(***************************************************************************)
MaterialId    == << "m", "a", "t", "e", "r", "i", "a", "l", "_", "i", "d" >>
MaterialZhCn  == << "m", "a", "t", "e", "r", "i", "a", "l", "_", "z", "h", "_", "c", "n" >>
ModidSafe     == << "m", "o", "d", "i", "d", "_", "s", "a", "f", "e" >>
Category      == << "c", "a", "t", "e", "g", "o", "r", "y" >>
MinecraftCrimson == << "m", "i", "n", "e", "c", "r", "a", "f", "t", ":", "c", "r", "i", "m", "s", "o", "n" >>
MinecraftWarped  == << "m", "i", "n", "e", "c", "r", "a", "f", "t", ":", "w", "a", "r", "p", "e", "d" >>

_build_combo(item) ==
    << [k |-> MaterialId,   v |-> get_key_prefix(item)],
       [k |-> MaterialZhCn, v |-> item.zh_cn],
       [k |-> ModidSafe,    v |-> get_modid_safe(item)],
       [k |-> Category,     v |-> item.category] >>

\* while "__" in real_key: real_key = real_key.replace("__", "_")
RECURSIVE CollapseUnderscores(_)
CollapseUnderscores(key) ==
    IF Contains(key, << Underscore, Underscore >>)
    THEN CollapseUnderscores(Replace(key, << Underscore, Underscore >>, << Underscore >>))
    ELSE key

\* real_key.strip('_')
RECURSIVE StripUnderscores(_)
StripUnderscores(key) ==
    IF key # << >> /\ Head(key) = Underscore THEN StripUnderscores(Tail(key))
    ELSE IF key # << >> /\ key[Len(key)] = Underscore
         THEN StripUnderscores(SubSeq(key, 1, Len(key) - 1))
         ELSE key

\* a key construction that rewrites log to stem for every item
_build_real_key_AlwaysStem(key_template, item) ==
    LET k1 == Replace(key_template, Placeholder(MaterialId), get_key_prefix(item))
        k2 == Replace(k1, Placeholder(ModidSafe), get_modid_safe(item))
        k3 == Replace(k2, Placeholder(Category), item.category)
        k4 == Replace(Replace(k3, << "_", "l", "o", "g", "_" >>, << "_", "s", "t", "e", "m", "_" >>), << "t", "a", "b", "l", "e", "_", "l", "o", "g" >>, << "t", "a", "b", "l", "e", "_", "s", "t", "e", "m" >>)
    IN  StripUnderscores(CollapseUnderscores(k4))

_build_real_key(key_template, item) ==
    LET k1 == Replace(key_template, Placeholder(MaterialId), get_key_prefix(item))
        k2 == Replace(k1, Placeholder(ModidSafe), get_modid_safe(item))
        k3 == Replace(k2, Placeholder(Category), item.category)
        k4 == IF item.id \in { MinecraftCrimson, MinecraftWarped }
              THEN Replace(Replace(k3, << "_", "l", "o", "g", "_" >>, << "_", "s", "t", "e", "m", "_" >>), << "t", "a", "b", "l", "e", "_", "l", "o", "g" >>, << "t", "a", "b", "l", "e", "_", "s", "t", "e", "m" >>)
              ELSE k3
    IN  StripUnderscores(CollapseUnderscores(k4))

\* the entries loop of generate_for_item, from entry i on
RECURSIVE EntriesFrom(_, _, _, _, _)
EntriesFrom(item, tpl, index, default_ns, i) ==
    IF i = 0 THEN << >>
    ELSE LET before == EntriesFrom(item, tpl, index, default_ns, i - 1)
         IN  IF should_skip_template(item, tpl[i].k) THEN before
             ELSE DictPut(before,
                          _build_real_key(tpl[i].k, item),
                          apply_replacements(item,
                              Core_apply(tpl[i].v, _build_combo(item), index, default_ns)))

\* str.replace(old, None) and `":" in None` raise TypeError: an item whose
\* category or zh_cn is None fails at its first entry that is not skipped
EntryRaises(item, tpl) ==
    /\ item.category = None \/ item.zh_cn = None
    /\ \E i \in 1..Len(tpl) : ~should_skip_template(item, tpl[i].k)

\* generate_for_item(item_id, template_name): raised, or the entries
generate_for_item(its, tpls, index, default_ns, item_id, name) ==
    IF ~DictHas(its, item_id) THEN [raised |-> TRUE, entries |-> << >>]
    ELSE IF ~DictHas(tpls, name) THEN [raised |-> TRUE, entries |-> << >>]
    ELSE LET item == DictGet(its, item_id)
             tpl  == DictGet(tpls, name)
         IN  IF EntryRaises(item, tpl) THEN [raised |-> TRUE, entries |-> << >>]
             ELSE [raised |-> FALSE,
                   entries |-> EntriesFrom(item, tpl, index, default_ns, Len(tpl))]

(***************************************************************************)
(* Input sets.                                                             *)
(***************************************************************************)
\* all strings over the alphabet A of length at most n
StringsUpTo(A, n) == UNION { [1..k -> A] : k \in 0..n }

ResolveAlphabet == { "a", "b", ":" }

DefaultNamespaces ==
    { Minecraft, << "p", "f", "m", ":" >>, << "a", ":", "b", ":" >>, << "n", "s" >>, Empty }

NoTriple == << >>

\* rule types and values of the configurations explored
Tree        == << "t", "r", "e", "e" >>
Tool        == << "t", "o", "o", "l" >>
Foo         == << "f", "o", "o" >>
Oak         == << "o", "a", "k" >>
Birch       == << "b", "i", "r", "c", "h" >>
PfmOak      == << "p", "f", "m", ":", "o", "a", "k" >>
MinecraftOak == Minecraft \o Oak

RuleTypes  == { Tree, Tool }
ValueLists == { << >>, << Oak >>, << Oak, Birch >>, << Oak, Oak >>, << Birch, Oak, PfmOak >> }

\* a ReplacementRule (src/model/config.py): type, values, extra, enabled
PlainRules ==
    [ type : RuleTypes, values : ValueLists, extra : { << >> }, enabled : BOOLEAN ]

RuleLists == UNION { [1..n -> PlainRules] : n \in 0..MaxRules }

\* ---- inputs of SpecApply
ReplStrings == { << "X" >>, << "W" >>, << "O" >>, << "F" >> }

Pfm == << "p", "f", "m", ":" >>

\* extra = {"*": {X: W}, "oak": {X: O}, "minecraft:oak": {X: F}}, keys in the order o
TierExtra(x, w, o, f, ord) ==
    LET tiers == << [k |-> Star,         v |-> << [k |-> x, v |-> w] >>],
                    [k |-> Oak,          v |-> << [k |-> x, v |-> o] >>],
                    [k |-> MinecraftOak, v |-> << [k |-> x, v |-> f] >>] >>
    IN  [i \in 1..3 |-> tiers[ord[i]]]

TierRules ==
    { << [type |-> Tree, values |-> << MinecraftOak, Oak, PfmOak >>,
          extra |-> TierExtra(x, w, o, f, ord), enabled |-> TRUE] >> :
        x \in ReplStrings, w \in ReplStrings, o \in ReplStrings, f \in ReplStrings,
        ord \in Orderings(1..3) }

\* ---- inputs of SpecRun: a configured template file is on disk or not; one
\*      that is has a list of combinations, each with the verdict json.loads
\*      gives on the content generated for it
TemplateNames == << "a.json", "b.json", "c.json", "d.json" >>

ValidityLists == UNION { [1..n -> BOOLEAN] : n \in 0..MaxCombos }

TemplateKinds ==
    { [exists |-> FALSE, valid |-> << >>] } \cup [ exists : { TRUE }, valid : ValidityLists ]

TemplateFileLists ==
    UNION { { [i \in 1..n |-> [name |-> TemplateNames[i], exists |-> ks[i].exists,
                                valid |-> ks[i].valid]] : ks \in [1..n -> TemplateKinds] }
            : n \in 1..MaxTemplates }

\* ---- inputs of SpecBatch: BatchItems (one with a null category, one with a
\*      null zh_cn that skips every key), the localization template, the
\*      engine's rules
ItemOak ==
    [ id |-> MinecraftOak, zh_cn |-> << "O", "a", "k", " ", "W" >>, namespace |-> Minecraft, category |-> << "m", "a", "t", "e", "r", "i", "a", "l" >>,
      skip_patterns |-> << >>, replacements |-> << >> ]

ItemCrimson ==
    [ id |-> MinecraftCrimson, zh_cn |-> << "C", "r", "i", "m" >>, namespace |-> Minecraft, category |-> << "m", "a", "t", "e", "r", "i", "a", "l" >>,
      skip_patterns |-> << << "c", "h", "a", "i", "r" >> >>,
      replacements |-> << [k |-> << "l", "o", "g" >>, v |-> << "s", "t", "e", "m" >>], [k |-> << "_", "m", "e", "t", "a" >>, v |-> << "O", "a", "k", " ", "W" >>] >> ]

ItemNullCategory ==
    [ id |-> << "p", "f", "m", ":", "t", "e", "a", "k" >>, zh_cn |-> << "T", "e", "a", "k" >>, namespace |-> Pfm, category |-> None,
      skip_patterns |-> << >>, replacements |-> << >> ]

ItemNullName ==
    [ id |-> << "b", "a", "d" >>, zh_cn |-> None, namespace |-> Empty, category |-> << "t", "o", "o", "l" >>,
      skip_patterns |-> << << "c", "h", "a", "i", "r" >>, << "t", "a", "b", "l", "e" >> >>, replacements |-> << >> ]

\* metadata key first, then two replacements of which the second rewrites
\* what the first wrote
ItemWarped ==
    [ id |-> MinecraftWarped, zh_cn |-> << "W", "a", "r", "p" >>, namespace |-> Minecraft, category |-> << "m", "a", "t", "e", "r", "i", "a", "l" >>,
      skip_patterns |-> << >>,
      replacements |-> << [k |-> << "_", "l", "o", "g" >>, v |-> << "x" >>], [k |-> << "l", "o", "g" >>, v |-> << "w", "o", "o", "d" >>],
                          [k |-> << "w", "o", "o", "d" >>, v |-> << "s", "t", "e", "m" >>] >> ]

\* one pattern that is in every real key of the item and in no key template,
\* one that is in the chair key template only
ItemPfmCrimson ==
    [ id |-> << "p", "f", "m", ":", "c", "r", "i", "m", "s", "o", "n" >>, zh_cn |-> << "C", "r", "i", "m" >>, namespace |-> Pfm, category |-> << "t", "o", "o", "l" >>,
      skip_patterns |-> << << "c", "r", "i", "m", "s", "o", "n" >>, << "i", "d", "}", "_", "c", "h", "a", "i", "r" >> >>, replacements |-> << >> ]

BatchItems ==
    { ItemOak, ItemCrimson, ItemNullCategory, ItemNullName, ItemWarped, ItemPfmCrimson }

\* Dict[str, BatchItem] keyed by item.id, in load order
ItemDicts ==
    UNION { { [i \in 1..n |-> [k |-> o[i].id, v |-> o[i]]] :
                o \in { q \in [1..n -> BatchItems] :
                          \A i, j \in 1..n : i # j => q[i] # q[j] } }
            : n \in 0..MaxItems }

ChairEntry == [ k |-> << "b", "l", "o", "c", "k", ".", "p", "f", "m", ".", "{", "m", "a", "t", "e", "r", "i", "a", "l", "_", "i", "d", "}", "_", "c", "h", "a", "i", "r" >>, v |-> << "{", "m", "a", "t", "e", "r", "i", "a", "l", "_", "z", "h", "_", "c", "n", "}", " ", "c", "h", "a", "i", "r" >> ]
TableEntry == [ k |-> << "b", "l", "o", "c", "k", ".", "p", "f", "m", ".", "{", "m", "a", "t", "e", "r", "i", "a", "l", "_", "i", "d", "}", "_", "l", "o", "g", "_", "t", "a", "b", "l", "e" >>, v |-> << "{", "m", "a", "t", "e", "r", "i", "a", "l", "_", "z", "h", "_", "c", "n", "}", "_", "l", "o", "g", " ", "t", "a", "b", "l", "e" >> ]

\* every key placeholder, with underscores to collapse and to strip
AllKeysEntry == [ k |-> << "_", "{", "m", "o", "d", "i", "d", "_", "s", "a", "f", "e", "}", "_", "{", "m", "a", "t", "e", "r", "i", "a", "l", "_", "i", "d", "}", "_", "_", "{", "c", "a", "t", "e", "g", "o", "r", "y", "}", "_" >>, v |-> << "{", "c", "a", "t", "e", "g", "o", "r", "y", "}", " ", "{", "m", "a", "t", "e", "r", "i", "a", "l", "_", "z", "h", "_", "c", "n", "}" >> ]

\* a key that ends in _log, and a value that holds {modid_safe}
LogEntry == [ k |-> << "b", "l", "o", "c", "k", ".", "p", "f", "m", ".", "s", "t", "r", "i", "p", "p", "e", "d", "_", "{", "m", "a", "t", "e", "r", "i", "a", "l", "_", "i", "d", "}", "_", "l", "o", "g" >>, v |-> << "{", "m", "a", "t", "e", "r", "i", "a", "l", "_", "z", "h", "_", "c", "n", "}" >> ]
SafeEntry == [ k |-> << "{", "m", "o", "d", "i", "d", "_", "s", "a", "f", "e", "}", "{", "m", "a", "t", "e", "r", "i", "a", "l", "_", "i", "d", "}", "_", "b", "e", "d" >>, v |-> << "{", "m", "o", "d", "i", "d", "_", "s", "a", "f", "e", "}", "{", "m", "a", "t", "e", "r", "i", "a", "l", "_", "z", "h", "_", "c", "n", "}" >> ]

LocTemplates ==
    { << [k |-> "loc.json", v |-> << ChairEntry, TableEntry, AllKeysEntry >>] >>,
      << [k |-> "loc.json", v |-> << ChairEntry >>] >>,
      << [k |-> "loc.json", v |-> << LogEntry, SafeEntry >>] >> }

LocRules ==
    { << [ type |-> MaterialId, values |-> << >>,
           extra |-> << [k |-> Star, v |-> << [k |-> << "c", "h", "a", "i", "r" >>, v |-> << "s", "e", "a", "t" >>] >>] >>,
           enabled |-> TRUE ] >> }

\* Template.placeholders: distinct names in order of first occurrence
PlaceholderLists ==
    { << >>, << Tree >>, << Foo >>, << Tree, Tool >>, << Tool, Tree >>,
      << Foo, Tree >>, << Tree, Foo, Tool >> }

(***************************************************************************)
(* Groups of variables at rest, for the specifications that leave them     *)
(* alone.                                                                  *)
(***************************************************************************)
ResolveIdle ==
    /\ r_pc = "idle"
    /\ value = Empty
    /\ resolved_legacy = NoTriple
    /\ resolved_core = NoTriple

ConfigIdle ==
    /\ rules = << >>
    /\ placeholders = << >>

CombosIdle ==
    /\ g_pc = "idle"
    /\ combos = << >>
    /\ legacy_tuples = << >>
    /\ legacy_combos = << >>

RunIdle ==
    /\ is_running = FALSE
    /\ cancel_requested = FALSE
    /\ processed_count = 0
    /\ current_template_name = ""
    /\ total_templates = 0
    /\ template_files = << >>
    /\ dry_run = FALSE
    /\ w_pc = "idle"
    /\ w_templates = << >>
    /\ w_tpl = 0
    /\ w_combos = << >>
    /\ w_combo = 0
    /\ writer_total = 0
    /\ writer_returned = 0
    /\ files = { }
    /\ runs = 0
    /\ run_written = << >>
    /\ on_complete_invoked = FALSE
    /\ on_error_invoked = FALSE
    /\ flag_at_check = FALSE
    /\ flag_at_raise = FALSE

BatchIdle ==
    /\ items = << >>
    /\ templates = << >>
    /\ template_name = ""
    /\ b_pc = "idle"
    /\ b_idx = 0
    /\ results = << >>
    /\ attempted = << >>

LoadIdle ==
    /\ records = << >>
    /\ l_pc = "idle"
    /\ l_idx = 0
    /\ items_dict = << >>
    /\ l_error = None
    /\ l_returned = None

TemplateIdle ==
    /\ t_pc = "idle"
    /\ t_name = Empty
    /\ t_content = Empty
    /\ t_placeholders = << >>
    /\ t_combos = << >>
    /\ t_outputs = << >>
    /\ t_legacy_outputs = << >>

ApplyIdle ==
    /\ e_pc = "idle"
    /\ content = Empty
    /\ combination = << >>
    /\ result_core = Empty
    /\ result_legacy = Empty
    /\ result_again = Empty

ExplainIdle ==
    /\ explain_log = NoLog
    /\ log_core = NoLog
    /\ log_legacy = NoLog

\* LocalizerService.__init__: self.stats
StatsIdle ==
    stats = [ total_items |-> 0, successful_items |-> 0, failed_items |-> 0,
              total_entries |-> 0 ]

SettingsIdle ==
    /\ config_loaded = FALSE
    /\ _template_files = << >>
    /\ s_calls = << >>

StartIdle ==
    /\ c_pc = << >>
    /\ c_returned = << >>
    /\ threads = 0

ExtraIdle ==
    /\ ExplainIdle
    /\ StatsIdle
    /\ SettingsIdle
    /\ StartIdle

(***************************************************************************)
(* SpecResolve: both resolvers applied to every bounded value and default  *)
(* namespace.                                                              *)
(***************************************************************************)
notResolve == << configVars, comboVars, applyVars, runVars, batchVars, loadVars, templateVars, extraVars >>

InitResolve ==
    /\ r_pc = "input"
    /\ value \in StringsUpTo(ResolveAlphabet, MaxValueLen)
    /\ default_namespace \in DefaultNamespaces
    /\ resolved_legacy = NoTriple
    /\ resolved_core = NoTriple
    /\ ConfigIdle
    /\ CombosIdle
    /\ ApplyIdle
    /\ RunIdle
    /\ BatchIdle
    /\ LoadIdle
    /\ TemplateIdle
    /\ ExtraIdle

ResolveLegacy ==
    /\ r_pc = "input"
    /\ resolved_legacy = NoTriple
    /\ resolved_legacy' = NamespaceResolver_resolve(value, default_namespace)
    /\ r_pc' = IF resolved_core = NoTriple THEN "input" ELSE "done"
    /\ UNCHANGED << value, resolved_core, notResolve >>

ResolveCore ==
    /\ r_pc = "input"
    /\ resolved_core = NoTriple
    /\ resolved_core' = Core_resolve(value, default_namespace)
    /\ r_pc' = IF resolved_legacy = NoTriple THEN "input" ELSE "done"
    /\ UNCHANGED << value, resolved_legacy, notResolve >>

NextResolve == ResolveLegacy \/ ResolveCore

SpecResolve == InitResolve /\ [][NextResolve]_vars

(***************************************************************************)
(* C10: namespace resolution.  A value holding ':' splits at its FIRST ':' *)
(* into (ns, name) and resolves to (name, ns + ":", ns + "_"), so name may *)
(* hold further ':'; a value without ':' resolves to (value, default       *)
(* namespace, S) with S = "" for the default "minecraft:" and the default  *)
(* with every ':' turned into '_' otherwise.  The legacy resolver and the  *)
(* core engine's _resolve return that same triple.                         *)
(***************************************************************************)
\* the triple the claim describes, stated without the program's scan
IsClaimedTriple(val, default_ns, t) ==
    IF \E i \in 1..Len(val) : val[i] = ":"
    THEN \E i \in 1..Len(val) :
            /\ val[i] = ":"
            /\ \A j \in 1..(i - 1) : val[j] # ":"
            /\ t[1] = [k \in 1..(Len(val) - i) |-> val[i + k]]
            /\ t[2] = [k \in 1..i |-> val[k]]
            /\ t[3] = [k \in 1..i |-> IF k = i THEN "_" ELSE val[k]]
    ELSE /\ t[1] = val
         /\ t[2] = default_ns
         /\ t[3] = IF default_ns = Minecraft THEN << >>
                   ELSE [k \in 1..Len(default_ns) |->
                            IF default_ns[k] = ":" THEN "_" ELSE default_ns[k]]

C10_ResolveTriple ==
    r_pc = "done" =>
        /\ Len(resolved_core) = 3
        /\ IsClaimedTriple(value, default_namespace, resolved_core)
        /\ resolved_legacy = resolved_core

\* a value with two ':' was resolved: its name keeps the second ':'
C10_Witness ==
    /\ r_pc = "done"
    /\ Cardinality({ i \in 1..Len(value) : value[i] = ":" }) >= 2
    /\ HasChar(resolved_core[1], Colon)

(***************************************************************************)
(* SpecCombos: combination generation for one template, by the core engine *)
(* RecipeService builds (generate_combinations) and by the legacy          *)
(* RecipeGenerator (CombinationGenerator.generate, then the zip of         *)
(* _process_template).                                                     *)
(***************************************************************************)
notCombos == << resolveVars, applyVars, runVars, batchVars, loadVars, templateVars, extraVars >>

InitCombos ==
    /\ g_pc = "config"
    /\ rules \in RuleLists
    /\ placeholders \in PlaceholderLists
    /\ default_namespace = Minecraft
    /\ combos = << >>
    /\ legacy_tuples = << >>
    /\ legacy_combos = << >>
    /\ ResolveIdle
    /\ ApplyIdle
    /\ RunIdle
    /\ BatchIdle
    /\ LoadIdle
    /\ TemplateIdle
    /\ ExtraIdle

\* RecipeService._process_template: combos = self.engine.generate_combinations(template)
GenerateCombinations ==
    /\ g_pc = "config"
    /\ \E order \in Orderings(Range(placeholders)) :
          combos' = Core_generate_combinations(Service_engine_rules(rules), order)
    /\ g_pc' = "core"
    /\ UNCHANGED << legacy_tuples, legacy_combos, configVars, notCombos >>

\* RecipeGenerator._generate_combinations
LegacyGenerate ==
    /\ g_pc = "core"
    /\ legacy_tuples' =
          CombinationGenerator_generate(get_active_rules(rules), Range(placeholders))
    /\ g_pc' = "tuples"
    /\ UNCHANGED << combos, legacy_combos, configVars, notCombos >>

\* RecipeGenerator._process_template: one combo_dict per tuple
LegacyProcessTemplate ==
    /\ g_pc = "tuples"
    /\ \E order \in Orderings(Range(placeholders)) :
          legacy_combos' = RecipeGenerator_combo_dicts(legacy_tuples, order)
    /\ g_pc' = "done"
    /\ UNCHANGED << combos, legacy_tuples, configVars, notCombos >>

NextCombos == GenerateCombinations \/ LegacyGenerate \/ LegacyProcessTemplate

SpecCombos == InitCombos /\ [][NextCombos]_vars

\* ---- vocabulary of the claims about combinations
needed == Range(placeholders)

KeySet(c)   == { c[i].k : i \in 1..Len(c) }
ValueSet(c) == { c[i].v : i \in 1..Len(c) }

EnabledTypes == { rules[i].type : i \in { j \in 1..Len(rules) : rules[j].enabled } }
EnabledValues ==
    UNION { Range(rules[i].values) : i \in { j \in 1..Len(rules) : rules[j].enabled } }

\* the rule the core engine's index holds for type t: the last one listed
LastRuleOfType(t) ==
    rules[CHOOSE i \in 1..Len(rules) :
            /\ rules[i].type = t
            /\ \A j \in (i + 1)..Len(rules) : rules[j].type # t]

RuledTypes == { rules[i].type : i \in 1..Len(rules) }

\* the positions of the rules the legacy generator selects
LegacySelected == { i \in 1..Len(rules) : rules[i].enabled /\ rules[i].type \in needed }

RECURSIVE ProductOfLengths(_)
ProductOfLengths(S) ==
    IF S = { } THEN 1
    ELSE LET r == CHOOSE x \in S : TRUE
         IN  Len(r.values) * ProductOfLengths(S \ { r })

RECURSIVE ProductOfLengthsAt(_)
ProductOfLengthsAt(I) ==
    IF I = { } THEN 1
    ELSE LET i == CHOOSE x \in I : TRUE
         IN  Len(rules[i].values) * ProductOfLengthsAt(I \ { i })

CoreSelected == { LastRuleOfType(t) : t \in needed \cap RuledTypes }

NoRepeatedValue(vals) == \A i, j \in 1..Len(vals) : i # j => vals[i] # vals[j]

PairwiseDistinct(list) == \A i, j \in 1..Len(list) : i # j => list[i] # list[j]

(***************************************************************************)
(* C2: no combination holds a value of a disabled rule R, and R's type is  *)
(* not a key of any combination (core engine as RecipeService builds it,   *)
(* and the legacy generator).  Stated for a disabled rule whose type and   *)
(* values no enabled rule shares, so that only R can have put them there.  *)
(***************************************************************************)
DisabledOnly(i) ==
    /\ ~rules[i].enabled
    /\ rules[i].type \notin EnabledTypes
    /\ Range(rules[i].values) \cap EnabledValues = { }

FreeOfRule(list, i) ==
    \A n \in 1..Len(list) :
        /\ rules[i].type \notin KeySet(list[n])
        /\ ValueSet(list[n]) \cap Range(rules[i].values) = { }

C2_DisabledRuleNeverUsed ==
    \A i \in 1..Len(rules) :
        DisabledOnly(i) =>
            /\ g_pc \in { "core", "tuples", "done" } => FreeOfRule(combos, i)
            /\ g_pc = "done" => FreeOfRule(legacy_combos, i)

(***************************************************************************)
(* C3 (as amended): generation returns exactly n1*...*nk combinations for  *)
(* the k rules it selects (core engine: for each needed type, the rule its *)
(* index holds; legacy generator: every enabled rule whose type is         *)
(* needed), none when it selects no rule; the returned combinations are    *)
(* pairwise different whenever no selected rule lists a value twice.       *)
(***************************************************************************)
C3_CountAndDistinctIfNoRepeat ==
    /\ g_pc \in { "core", "tuples", "done" } =>
          /\ Len(combos) = IF CoreSelected = { } THEN 0 ELSE ProductOfLengths(CoreSelected)
          /\ (\A r \in CoreSelected : NoRepeatedValue(r.values)) => PairwiseDistinct(combos)
    /\ g_pc \in { "tuples", "done" } =>
          /\ Len(legacy_tuples) =
                IF LegacySelected = { } THEN 0 ELSE ProductOfLengthsAt(LegacySelected)
          /\ (\A i \in LegacySelected : NoRepeatedValue(rules[i].values))
                => PairwiseDistinct(legacy_tuples)

\* two rules of two and three values gave six different combinations
C3_Witness ==
    /\ g_pc = "done"
    /\ Cardinality(CoreSelected) = 2
    /\ Len(combos) = 6
    /\ Len(legacy_tuples) = 6
    /\ PairwiseDistinct(combos)

\* C3 as written: the count, and no two returned combinations equal
C3_Original ==
    /\ g_pc \in { "core", "tuples", "done" } =>
          /\ Len(combos) = IF CoreSelected = { } THEN 0 ELSE ProductOfLengths(CoreSelected)
          /\ PairwiseDistinct(combos)
    /\ g_pc \in { "tuples", "done" } =>
          /\ Len(legacy_tuples) =
                IF LegacySelected = { } THEN 0 ELSE ProductOfLengthsAt(LegacySelected)
          /\ PairwiseDistinct(legacy_tuples)

(***************************************************************************)
(* C4: combinations come in the cartesian order of the rule list: the      *)
(* first matching rule of the configured list is the first key of every    *)
(* combination and varies slowest, whatever the order of the template's    *)
(* placeholders, so the same rules and template give one list.             *)
(***************************************************************************)
\* the needed types in the order the rule list first names them
RuleListOrder ==
    SelectSeq(DictKeys(Core_index(rules)), LAMBDA t : t \in needed)

C4_RuleListOrder ==
    g_pc \in { "core", "tuples", "done" } =>
        /\ \A n \in 1..Len(combos) : DictKeys(combos[n]) = RuleListOrder
        /\ combos = Core_generate_combinations(Core_index(rules), RuleListOrder)

(***************************************************************************)
(* C5: every combination handed to apply has as key set exactly the needed *)
(* types that have a rule and maps each key to a value of the rule of that *)
(* type; with no needed type ruled the result is the empty list.           *)
(***************************************************************************)
C5_KeysAndValues ==
    /\ g_pc \in { "core", "tuples", "done" } =>
          /\ \A n \in 1..Len(combos) :
                /\ KeySet(combos[n]) = needed \cap RuledTypes
                /\ \A e \in Range(combos[n]) : e.v \in Range(LastRuleOfType(e.k).values)
          /\ (needed \cap RuledTypes = { }) => combos = << >>
    /\ g_pc = "done" =>
          /\ \A n \in 1..Len(legacy_combos) :
                /\ KeySet(legacy_combos[n]) = needed \cap EnabledTypes
                /\ \A e \in Range(legacy_combos[n]) :
                      \E i \in LegacySelected :
                          rules[i].type = e.k /\ e.v \in Range(rules[i].values)
          /\ (needed \cap EnabledTypes = { }) => legacy_combos = << >>

(***************************************************************************)
(* SpecApply: one content rewritten for one combination by the core engine *)
(* and by the legacy engine, for a rule that carries all three override    *)
(* tiers.                                                                  *)
(***************************************************************************)
notApply == << resolveVars, comboVars, runVars, batchVars, loadVars, templateVars, extraVars >>

InitApply ==
    /\ e_pc = "input"
    /\ rules \in TierRules
    /\ placeholders = << Tree >>
    /\ default_namespace \in { Minecraft, Pfm }
    /\ combination \in { << [k |-> Tree, v |-> val] >> : val \in Range(rules[1].values) }
    /\ content \in { rules[1].extra[1].v[1].k,
                     Placeholder(Tree) \o rules[1].extra[1].v[1].k }
    /\ result_core = Empty
    /\ result_legacy = Empty
    /\ result_again = Empty
    /\ ResolveIdle
    /\ CombosIdle
    /\ RunIdle
    /\ BatchIdle
    /\ LoadIdle
    /\ TemplateIdle
    /\ ExtraIdle

\* content = self.engine.apply(template.content, combo, explain_log), core engine
ApplyCore ==
    /\ e_pc = "input"
    /\ result_core' =
          Core_apply(content, combination, Service_engine_rules(rules), default_namespace)
    /\ e_pc' = "core"
    /\ UNCHANGED << content, combination, result_legacy, result_again, configVars, notApply >>

\* the same call on the legacy engine (src/generator.py _generate_single)
ApplyLegacy ==
    /\ e_pc = "core"
    /\ result_legacy' = Legacy_apply(content, combination, rules, default_namespace)
    /\ e_pc' = "done"
    /\ UNCHANGED << content, combination, result_core, result_again, configVars, notApply >>

NextApply == ApplyCore \/ ApplyLegacy

SpecApply == InitApply /\ [][NextApply]_vars

(***************************************************************************)
(* C1: for a rule of type T whose extra maps the same substring X to W     *)
(* under "*", to O under "oak" and to F under "minecraft:oak", apply on    *)
(* the text "X" with the combination selecting "minecraft:oak" for T       *)
(* returns "F".                                                            *)
(***************************************************************************)
\* the mapping {X: new} and nothing else
MapsOnly(mapping, x) == Len(mapping) = 1 /\ mapping[1].k = x

C1_Case ==
    /\ Len(rules) = 1
    /\ DictHas(rules[1].extra, Star)
    /\ DictHas(rules[1].extra, Oak)
    /\ DictHas(rules[1].extra, MinecraftOak)
    /\ MapsOnly(DictGet(rules[1].extra, Star), content)
    /\ MapsOnly(DictGet(rules[1].extra, Oak), content)
    /\ MapsOnly(DictGet(rules[1].extra, MinecraftOak), content)
    /\ combination = << [k |-> rules[1].type, v |-> MinecraftOak] >>

C1_FullValueTierWins ==
    (e_pc \in { "core", "done" } /\ C1_Case) =>
        result_core = DictGet(rules[1].extra, MinecraftOak)[1].v

(***************************************************************************)
(* SpecRun: RecipeService generation runs.  start_generation starts the    *)
(* worker thread (_run_internal); cancel_generation may be called between  *)
(* any two steps of the worker.                                            *)
(***************************************************************************)
notRun == << resolveVars, configVars, comboVars, applyVars, batchVars, loadVars, templateVars, extraVars >>

InitRun ==
    /\ is_running = FALSE
    /\ cancel_requested = FALSE
    /\ processed_count = 0
    /\ current_template_name = ""
    /\ total_templates = 0
    /\ template_files \in TemplateFileLists
    /\ dry_run = FALSE
    /\ w_pc = "idle"
    /\ w_templates = << >>
    /\ w_tpl = 0
    /\ w_combos = << >>
    /\ w_combo = 0
    /\ writer_total = 0
    /\ writer_returned = 0
    /\ files = { }
    /\ runs = 0
    /\ run_written = << >>
    /\ on_complete_invoked = FALSE
    /\ on_error_invoked = FALSE
    /\ flag_at_check = FALSE
    /\ flag_at_raise = FALSE
    /\ default_namespace = Minecraft
    /\ ResolveIdle
    /\ ConfigIdle
    /\ CombosIdle
    /\ ApplyIdle
    /\ BatchIdle
    /\ LoadIdle
    /\ TemplateIdle
    /\ ExtraIdle

\* start_generation(dry_run, explain_mode), the call that starts a worker
StartGeneration ==
    /\ ~is_running
    /\ w_pc = "idle"
    /\ template_files # << >>
    /\ runs < MaxRuns
    /\ \E dry \in BOOLEAN : dry_run' = dry
    /\ is_running' = TRUE
    /\ cancel_requested' = FALSE
    /\ processed_count' = 0
    /\ current_template_name' = ""
    /\ total_templates' = Len(template_files)
    /\ w_pc' = "load"
    /\ w_templates' = << >>
    /\ w_tpl' = 0
    /\ w_combos' = << >>
    /\ w_combo' = 0
    /\ runs' = runs + 1
    /\ run_written' = << >>
    /\ on_complete_invoked' = FALSE
    /\ on_error_invoked' = FALSE
    /\ flag_at_check' = FALSE
    /\ flag_at_raise' = FALSE
    /\ UNCHANGED << template_files, writerVars, notRun >>

\* cancel_generation
CancelGeneration ==
    /\ ~cancel_requested
    /\ cancel_requested' = TRUE
    /\ UNCHANGED << is_running, processed_count, current_template_name, total_templates,
                    template_files, dry_run, workerVars, writerVars, runLogVars, notRun >>

\* _run_internal: templates = self.template_loader.load_all(...); a file that
\* is not on disk is reported and left out; `if not templates: return`
WorkerLoad ==
    /\ w_pc = "load"
    /\ w_templates' = SelectSeq(template_files, LAMBDA t : t.exists)
    /\ IF w_templates' = << >>
       THEN w_pc' = "finally" /\ w_tpl' = 0
       ELSE w_pc' = "tpl_check" /\ w_tpl' = 1
    /\ UNCHANGED << serviceVars, w_combos, w_combo, writerVars, runLogVars, notRun >>

\* _run_internal: head of `for filename, template in templates.items()`
WorkerCheckTemplate ==
    /\ w_pc = "tpl_check"
    /\ IF w_tpl > Len(w_templates) \/ cancel_requested
       THEN /\ w_pc' = "finish"
            /\ UNCHANGED current_template_name
       ELSE /\ w_pc' = "gen"
            /\ current_template_name' = w_templates[w_tpl].name
    /\ UNCHANGED << is_running, cancel_requested, processed_count, total_templates,
                    template_files, dry_run, w_templates, w_tpl, w_combos, w_combo,
                    writerVars, runLogVars, notRun >>

\* _process_template: combos = generate_combinations(template); `if not combos:
\* return`, and then _run_internal counts the template
WorkerGenerate ==
    /\ w_pc = "gen"
    /\ w_combos' = w_templates[w_tpl].valid
    /\ IF w_combos' = << >>
       THEN /\ processed_count' = processed_count + 1
            /\ w_tpl' = w_tpl + 1
            /\ w_combo' = 0
            /\ w_pc' = "tpl_check"
       ELSE /\ w_combo' = 1
            /\ w_pc' = "combo_check"
            /\ UNCHANGED << processed_count, w_tpl >>
    /\ UNCHANGED << is_running, cancel_requested, current_template_name, total_templates,
                    template_files, dry_run, w_templates, writerVars, runLogVars, notRun >>

\* _process_template: head of `for combo in combos`, with its cancel check;
\* leaving the loop returns to _run_internal, which counts the template
WorkerCheckCombo ==
    /\ w_pc = "combo_check"
    /\ flag_at_check' = cancel_requested
    /\ IF w_combo > Len(w_combos) \/ cancel_requested
       THEN /\ processed_count' = processed_count + 1
            /\ w_tpl' = w_tpl + 1
            /\ w_pc' = "tpl_check"
       ELSE /\ w_pc' = "write"
            /\ UNCHANGED << processed_count, w_tpl >>
    /\ UNCHANGED << is_running, cancel_requested, current_template_name, total_templates,
                    template_files, dry_run, w_templates, w_combos, w_combo, writerVars,
                    runs, run_written, on_complete_invoked, on_error_invoked,
                    flag_at_raise, notRun >>

\* _process_template: apply, then self.output_writer.write(filename, content,
\* dry_run) (src/dao/output_writer.py): the total is counted first, a preview
\* returns, content that is not JSON raises ValueError, which nothing catches
\* before the handler of _run_internal
WorkerWrite ==
    /\ w_pc = "write"
    /\ writer_total' = writer_total + 1
    /\ IF dry_run \/ w_combos[w_combo]
       THEN /\ files' = IF dry_run THEN files
                        ELSE files \cup { << current_template_name, w_combo >> }
            /\ writer_returned' = writer_returned + 1
            /\ run_written' = Append(run_written, << current_template_name, w_combo >>)
            /\ processed_count' = processed_count + 1
            /\ w_combo' = w_combo + 1
            /\ w_pc' = "combo_check"
            /\ UNCHANGED flag_at_raise
       ELSE /\ w_pc' = "except"
            /\ flag_at_raise' = cancel_requested
            /\ UNCHANGED << files, writer_returned, run_written, processed_count, w_combo >>
    /\ UNCHANGED << is_running, cancel_requested, current_template_name, total_templates,
                    template_files, dry_run, w_templates, w_tpl, w_combos,
                    runs, on_complete_invoked, on_error_invoked, flag_at_check, notRun >>

\* _run_internal after the loop: `if not self._cancel_requested:` ... on_complete(stats)
WorkerFinish ==
    /\ w_pc = "finish"
    /\ on_complete_invoked' = ~cancel_requested
    /\ w_pc' = "finally"
    /\ UNCHANGED << serviceVars, w_templates, w_tpl, w_combos, w_combo, writerVars,
                    runs, run_written, on_error_invoked, flag_at_check, flag_at_raise,
                    notRun >>

\* _run_internal: `except Exception as e:` ... self.on_error(e)
WorkerExcept ==
    /\ w_pc = "except"
    /\ on_error_invoked' = TRUE
    /\ w_pc' = "finally"
    /\ UNCHANGED << serviceVars, w_templates, w_tpl, w_combos, w_combo, writerVars,
                    runs, run_written, on_complete_invoked, flag_at_check, flag_at_raise,
                    notRun >>

\* _run_internal: `finally:`
WorkerFinally ==
    /\ w_pc = "finally"
    /\ is_running' = FALSE
    /\ current_template_name' = ""
    /\ w_pc' = "idle"
    /\ UNCHANGED << cancel_requested, processed_count, total_templates, template_files,
                    dry_run, w_templates, w_tpl, w_combos, w_combo, writerVars,
                    runLogVars, notRun >>

NextRun ==
    \/ StartGeneration
    \/ CancelGeneration
    \/ WorkerLoad
    \/ WorkerCheckTemplate
    \/ WorkerGenerate
    \/ WorkerCheckCombo
    \/ WorkerWrite
    \/ WorkerFinish
    \/ WorkerExcept
    \/ WorkerFinally

SpecRun == InitRun /\ [][NextRun]_vars

\* the run that was started has ended
RunEnded == runs > 0 /\ w_pc = "idle"

(***************************************************************************)
(* C6: when the content generated for one combination is not valid JSON    *)
(* and the writer rejects it, only that output is lost: the remaining      *)
(* combinations of the template and the remaining templates are still      *)
(* written.  So a run that was not cancelled ends with every combination   *)
(* whose content is valid JSON written.                                    *)
(***************************************************************************)
C6_OnlyRejectedOutputLost ==
    (RunEnded /\ ~dry_run /\ ~cancel_requested) =>
        \A i \in 1..Len(template_files) :
            template_files[i].exists =>
                \A c \in 1..Len(template_files[i].valid) :
                    template_files[i].valid[c] =>
                        << template_files[i].name, c >> \in Range(run_written)

(***************************************************************************)
(* C7: once cancel_generation is called during a run, the worker writes no *)
(* output for a combination whose check read the flag set, and ends        *)
(* without raising and without invoking on_error.                          *)
(***************************************************************************)
C7_CancelEndsQuietly ==
    /\ w_pc = "write" => ~flag_at_check
    /\ w_pc = "except" => ~flag_at_raise
    /\ on_error_invoked => ~flag_at_raise

(***************************************************************************)
(* C21: the writer's total counts exactly the artifacts produced: after    *)
(* any sequence of write calls, stats["total"] equals the number of calls  *)
(* that returned a path; a write rejected because the content is not valid *)
(* JSON leaves the total unchanged.                                        *)
(***************************************************************************)
C21_TotalCountsReturnedWrites ==
    writer_total = writer_returned

(***************************************************************************)
(* SpecBatch: LocalizationEngine.generate_batch(template_name), one item   *)
(* of self.items per step.  The batch starts where                         *)
(* LocalizerService.start_generation calls it: reload_config has counted   *)
(* the items and start_generation has reset the other counters.  When the  *)
(* template is loaded, start_generation goes on after the batch returns.   *)
(***************************************************************************)
notBatch == << resolveVars, comboVars, applyVars, runVars, loadVars, templateVars, extraVars >>

InitBatch ==
    /\ items \in ItemDicts
    /\ templates \in LocTemplates
    /\ template_name \in { "loc.json", "missing.json" }
    /\ rules \in LocRules
    /\ default_namespace \in { Minecraft, Pfm }
    /\ placeholders = << >>
    /\ b_pc = "loop"
    /\ b_idx = 1
    /\ results = << >>
    /\ attempted = << >>
    /\ stats = [ total_items |-> Len(items), successful_items |-> 0, failed_items |-> 0,
                 total_entries |-> 0 ]
    /\ ResolveIdle
    /\ CombosIdle
    /\ ApplyIdle
    /\ RunIdle
    /\ LoadIdle
    /\ TemplateIdle
    /\ ExplainIdle
    /\ SettingsIdle
    /\ StartIdle

\* generate_for_item for the item the batch loop is at
GeneratedForCurrent ==
    generate_for_item(items, templates, Core_index(rules), default_namespace,
                      items[b_idx].k, template_name)

\* a batch loop without the try/except: the first failure ends the batch
GenerateBatchStep_Abort ==
    /\ b_pc = "loop"
    /\ b_idx <= Len(items)
    /\ attempted' = Append(attempted, items[b_idx].k)
    /\ IF GeneratedForCurrent.raised
       THEN /\ b_pc' = "done"
            /\ UNCHANGED << results, b_idx >>
       ELSE /\ results' = DictPut(results, items[b_idx].k, GeneratedForCurrent.entries)
            /\ b_idx' = b_idx + 1
            /\ UNCHANGED b_pc
    /\ UNCHANGED << items, templates, template_name, configVars, notBatch >>

\* generate_batch: one turn of `for item_id in self.items.keys()`, with its
\* try / except Exception: continue
GenerateBatchStep ==
    /\ b_pc = "loop"
    /\ b_idx <= Len(items)
    /\ attempted' = Append(attempted, items[b_idx].k)
    /\ results' = IF GeneratedForCurrent.raised THEN results
                  ELSE DictPut(results, items[b_idx].k, GeneratedForCurrent.entries)
    /\ b_idx' = b_idx + 1
    /\ UNCHANGED << items, templates, template_name, b_pc, configVars, notBatch >>

\* generate_batch: return results
GenerateBatchReturn ==
    /\ b_pc = "loop"
    /\ b_idx > Len(items)
    /\ b_pc' = "done"
    /\ UNCHANGED << items, templates, template_name, b_idx, results, attempted,
                    configVars, notBatch >>

\* sum(len(entries) for entries in results.values())
RECURSIVE SumEntries(_, _)
SumEntries(res, i) ==
    IF i > Len(res) THEN 0 ELSE Len(res[i].v) + SumEntries(res, i + 1)

\* LocalizerService.start_generation after `results = self.engine.generate_batch(...)`
\* (it returns before the batch when the template is not loaded)
StartGenerationComplete ==
    /\ b_pc = "done"
    /\ DictHas(templates, template_name)
    /\ stats' = [ stats EXCEPT !.successful_items = Len(results),
                               !.total_entries = SumEntries(results, 1) ]
    /\ b_pc' = "complete"
    /\ UNCHANGED << items, templates, template_name, b_idx, results, attempted, configVars,
                    resolveVars, comboVars, applyVars, runVars, loadVars, templateVars,
                    explainVars, settingsVars, startVars >>

NextBatch == GenerateBatchStep \/ GenerateBatchReturn \/ StartGenerationComplete

SpecBatch == InitBatch /\ [][NextBatch]_vars

(***************************************************************************)
(* C8: generate_batch never aborts because one item fails: the returned    *)
(* mapping holds exactly the items for which generate_for_item did not     *)
(* raise, each with its full entry map, and every item, also after a       *)
(* failing one, is attempted.                                              *)
(***************************************************************************)
GeneratedFor(id) ==
    generate_for_item(items, templates, Core_index(rules), default_namespace,
                      id, template_name)

C8_BatchSkipsFailures ==
    b_pc = "done" =>
        /\ attempted = DictKeys(items)
        /\ \A i \in 1..Len(items) :
              IF GeneratedFor(items[i].k).raised
              THEN ~DictHas(results, items[i].k)
              ELSE /\ DictHas(results, items[i].k)
                   /\ DictGet(results, items[i].k) = GeneratedFor(items[i].k).entries
        /\ \A n \in 1..Len(results) : DictHas(items, results[n].k)

\* an item failed, and an item after it was generated with entries
C8_Witness ==
    /\ b_pc = "done"
    /\ \E i, j \in 1..Len(items) :
          /\ i < j
          /\ GeneratedFor(items[i].k).raised
          /\ DictHas(results, items[j].k)
          /\ DictGet(results, items[j].k) # << >>

(***************************************************************************)
(* SpecLoad: BatchItemDAO.load over raw_data["items"], one record per      *)
(* step of its for loop.                                                   *)
(***************************************************************************)
\* a key the record does not hold
Absent == << "Absent" >>

\* a JSON object with or without its id, zh_cn and namespace keys
ObjectRecords ==
    { [ kind |-> "object", id |-> i, zh_cn |-> z, namespace |-> n ] :
        i \in { MinecraftOak, MinecraftCrimson, Absent },
        z \in { << "O", "a", "k", " ", "W" >>, Absent },
        n \in { Minecraft, Absent } }

\* a number or null: `"id" not in item_data` raises TypeError
ScalarRecord == [ kind |-> "scalar", id |-> Absent, zh_cn |-> Absent, namespace |-> Absent ]

\* the list ["id", "zh_cn"]: both membership tests pass, data.items() fails
NameListRecord == [ kind |-> "list", id |-> Absent, zh_cn |-> Absent, namespace |-> Absent ]

RawRecords == ObjectRecords \cup { ScalarRecord, NameListRecord }

RecordLists == UNION { [1..n -> RawRecords] : n \in 0..MaxRecords }

\* what the body of the try block does with one record: "ok", or the type
\* of the exception it raises
RecordOutcome(item_data) ==
    IF item_data.kind = "scalar" THEN "TypeError"
    ELSE IF item_data.kind = "list" THEN "AttributeError"
    ELSE IF item_data.id = Absent \/ item_data.zh_cn = Absent THEN "ValueError"
    ELSE IF item_data.namespace = Absent THEN "TypeError"
    ELSE "ok"

\* except (TypeError, KeyError, ValueError)
CaughtByLoad == { "TypeError", "KeyError", "ValueError" }

\* BatchItem.create(data): the dataclass with its defaults
BatchItem_create(data) ==
    [ id |-> data.id, zh_cn |-> data.zh_cn, namespace |-> data.namespace,
      category |-> << "m", "a", "t", "e", "r", "i", "a", "l" >>, skip_patterns |-> << >>, replacements |-> << >> ]

notLoad == << resolveVars, configVars, comboVars, applyVars, runVars, batchVars,
             templateVars, extraVars >>

InitLoad ==
    /\ records \in RecordLists
    /\ l_pc = "loop"
    /\ l_idx = 1
    /\ items_dict = << >>
    /\ l_error = None
    /\ l_returned = None
    /\ default_namespace = Minecraft
    /\ ConfigIdle
    /\ ResolveIdle
    /\ CombosIdle
    /\ ApplyIdle
    /\ RunIdle
    /\ BatchIdle
    /\ TemplateIdle
    /\ ExtraIdle

\* a loader that reports a bad record and goes on to the next one
LoadRecord_SkipBad ==
    /\ l_pc = "loop"
    /\ l_idx <= Len(records)
    /\ LET item_data == records[l_idx]
           outcome   == RecordOutcome(item_data)
       IN  IF outcome = "ok"
           THEN /\ items_dict' = DictPut(items_dict, item_data.id, BatchItem_create(item_data))
                /\ UNCHANGED l_error
           ELSE /\ l_error' = [ type |-> "ValueError", index |-> l_idx, content |-> item_data ]
                /\ UNCHANGED items_dict
    /\ l_idx' = l_idx + 1
    /\ UNCHANGED << records, l_pc, l_returned, notLoad >>

\* load: one turn of `for idx, item_data in enumerate(raw_data["items"])`;
\* l_idx counts from 1, so it is the idx+1 of the message
LoadRecord ==
    /\ l_pc = "loop"
    /\ l_idx <= Len(records)
    /\ LET item_data == records[l_idx]
           outcome   == RecordOutcome(item_data)
       IN  IF outcome = "ok"
           THEN /\ items_dict' = DictPut(items_dict, item_data.id, BatchItem_create(item_data))
                /\ l_idx' = l_idx + 1
                /\ UNCHANGED << l_pc, l_error >>
           ELSE IF outcome \in CaughtByLoad
           THEN /\ l_pc' = "raised"
                /\ l_error' = [ type |-> "ValueError", index |-> l_idx, content |-> item_data ]
                /\ UNCHANGED << items_dict, l_idx >>
           ELSE /\ l_pc' = "raised"
                /\ l_error' = [ type |-> outcome, index |-> 0, content |-> None ]
                /\ UNCHANGED << items_dict, l_idx >>
    /\ UNCHANGED << records, l_returned, notLoad >>

\* load: return items_dict
LoadReturn ==
    /\ l_pc = "loop"
    /\ l_idx > Len(records)
    /\ l_pc' = "returned"
    /\ l_returned' = items_dict
    /\ UNCHANGED << records, l_idx, items_dict, l_error, notLoad >>

NextLoad == LoadRecord \/ LoadReturn

SpecLoad == InitLoad /\ [][NextLoad]_vars

LoadEnded == l_pc \in { "returned", "raised" }

WellFormed(i) == RecordOutcome(records[i]) = "ok"

\* the records that do not build, by position
Malformed == { i \in 1..Len(records) : ~WellFormed(i) }

FirstMalformed == CHOOSE i \in Malformed : \A j \in Malformed : i <= j

\* the last record with the id of record i
LastWithId(i) ==
    CHOOSE j \in i..Len(records) :
        /\ WellFormed(j) /\ records[j].id = records[i].id
        /\ \A m \in (j + 1)..Len(records) :
              ~(WellFormed(m) /\ records[m].id = records[i].id)

(***************************************************************************)
(* C9 as stated: with a record that lacks `id` or `zh_cn` (or cannot be    *)
(* built) in the list, every other well-formed record is still loaded      *)
(* into the returned id-keyed dictionary.                                  *)
(***************************************************************************)
C9_Original ==
    LoadEnded =>
        /\ l_returned # None
        /\ \A i \in 1..Len(records) :
              WellFormed(i) => DictHas(l_returned, records[i].id)

(***************************************************************************)
(* C9: load stops at the first record that does not build. For a record    *)
(* that lacks `id` or `zh_cn`, or whose construction raises TypeError,     *)
(* KeyError or ValueError, it raises a ValueError naming that record's     *)
(* 1-based index and content (a non-object record holding both names       *)
(* raises an unwrapped AttributeError); no dictionary is returned, so no   *)
(* other record is loaded. Only a list of well-formed records returns,     *)
(* as the dictionary of all of them keyed by id, a later record replacing  *)
(* an earlier one of the same id.                                          *)
(***************************************************************************)
C9_LoadStopsAtFirstMalformed ==
    LoadEnded =>
        IF Malformed # {}
        THEN /\ l_pc = "raised"
             /\ l_returned = None
             /\ IF RecordOutcome(records[FirstMalformed]) \in CaughtByLoad
                THEN l_error = [ type |-> "ValueError", index |-> FirstMalformed,
                                 content |-> records[FirstMalformed] ]
                ELSE l_error.type = "AttributeError"
        ELSE /\ l_pc = "returned"
             /\ l_error = None
             /\ \A i \in 1..Len(records) :
                   /\ DictHas(l_returned, records[i].id)
                   /\ DictGet(l_returned, records[i].id) = BatchItem_create(records[LastWithId(i)])
             /\ \A n \in 1..Len(l_returned) :
                   \E i \in 1..Len(records) : records[i].id = l_returned[n].k

\* load raised for a record that lacks a required key, with a well-formed
\* record before it and another after it
C9_Witness ==
    /\ l_pc = "raised"
    /\ l_error.type = "ValueError"
    /\ l_error.index = 2
    /\ Len(records) = 3
    /\ WellFormed(1)
    /\ RecordOutcome(records[2]) = "ValueError"
    /\ WellFormed(3)

(***************************************************************************)
(* Template (src/model/template.py): _extract_placeholders.                *)
(***************************************************************************)
\* [a-zA-Z0-9_]
IdentChars ==
    { "a", "b", "c", "d", "e", "f", "g", "h", "i", "j", "k", "l", 
      "m", "n", "o", "p", "q", "r", "s", "t", "u", "v", "w", "x", 
      "y", "z", "A", "B", "C", "D", "E", "F", "G", "H", "I", "J", 
      "K", "L", "M", "N", "O", "P", "Q", "R", "S", "T", "U", "V", 
      "W", "X", "Y", "Z", "0", "1", "2", "3", "4", "5", "6", "7", 
      "8", "9", "_" }

\* the length of the run of [a-zA-Z0-9_] that starts at position i
RECURSIVE IdentRun(_, _)
IdentRun(s, i) ==
    IF i <= Len(s) /\ s[i] \in IdentChars THEN 1 + IdentRun(s, i + 1) ELSE 0

\* the length of the group of a match of \{([a-zA-Z0-9_]+)\} that starts at
\* position i, 0 when there is none
MatchAt(s, i) ==
    IF s[i] # "{" THEN 0
    ELSE LET n == IdentRun(s, i + 1)
         IN  IF n > 0 /\ i + n + 1 <= Len(s) /\ s[i + n + 1] = "}" THEN n ELSE 0

\* pattern.findall(content): the groups of the non-overlapping matches,
\* scanning from the left
RECURSIVE FindAll(_, _)
FindAll(s, i) ==
    IF i > Len(s) THEN << >>
    ELSE LET n == MatchAt(s, i)
         IN  IF n > 0 THEN << SubSeq(s, i + 1, i + n) >> \o FindAll(s, i + n + 2)
             ELSE FindAll(s, i + 1)

Modid == << "m", "o", "d", "i", "d" >>

\* the loop over matches with its `seen` set, all matches kept
RECURSIVE UniqueAll(_, _, _)
UniqueAll(matches, seen, i) ==
    IF i > Len(matches) THEN << >>
    ELSE IF matches[i] \notin seen
         THEN << matches[i] >> \o UniqueAll(matches, seen \cup { matches[i] }, i + 1)
         ELSE UniqueAll(matches, seen, i + 1)

\* the loop over matches with its `seen` set and the fixed placeholders
RECURSIVE UniquePlaceholders(_, _, _)
UniquePlaceholders(matches, seen, i) ==
    IF i > Len(matches) THEN << >>
    ELSE IF matches[i] \notin seen /\ matches[i] \notin { Modid, ModidSafe }
         THEN << matches[i] >> \o UniquePlaceholders(matches, seen \cup { matches[i] }, i + 1)
         ELSE UniquePlaceholders(matches, seen, i + 1)

\* an extraction that keeps the fixed placeholders
_extract_placeholders_KeepFixed(text) == UniqueAll(FindAll(text, 1), { }, 1)

\* Template._extract_placeholders
_extract_placeholders(text) == UniquePlaceholders(FindAll(text, 1), { }, 1)

\* ---- template contents: up to MaxPieces of these pieces, joined
ContentPieces ==
    { << "{" >>, << "}" >>, Placeholder(Tree), Placeholder(Tool), ModidToken,
      ModidSafeToken, Tree, << "{", "a", "-", "b", "}" >>, << "{", "T", "_", "1", "}" >> }

RECURSIVE Join(_)
Join(ps) == IF ps = << >> THEN << >> ELSE Head(ps) \o Join(Tail(ps))

PieceContents ==
    UNION { { Join(ps) : ps \in [1..n -> ContentPieces] } : n \in 0..MaxPieces }

TreeJson == << "{", "t", "r", "e", "e", "}", ".", "j", "s", "o", "n" >>

(***************************************************************************)
(* SpecScan: Template(path) for every bounded content.                     *)
(***************************************************************************)
notTemplate == << resolveVars, comboVars, applyVars, runVars, batchVars, loadVars, extraVars >>

InitScan ==
    /\ t_pc = "new"
    /\ t_name = TreeJson
    /\ t_content \in PieceContents
    /\ t_placeholders = << >>
    /\ t_combos = << >>
    /\ t_outputs = << >>
    /\ t_legacy_outputs = << >>
    /\ default_namespace = Minecraft
    /\ ConfigIdle
    /\ ResolveIdle
    /\ CombosIdle
    /\ ApplyIdle
    /\ RunIdle
    /\ BatchIdle
    /\ LoadIdle
    /\ ExtraIdle

\* Template.__init__: self.placeholders = self._extract_placeholders()
TemplateLoad ==
    /\ t_pc = "new"
    /\ t_placeholders' = _extract_placeholders(t_content)
    /\ t_pc' = "loaded"
    /\ UNCHANGED << t_name, t_content, t_combos, t_outputs, t_legacy_outputs,
                    configVars, notTemplate >>

NextScan == TemplateLoad

SpecScan == InitScan /\ [][NextScan]_vars

\* name occurs as the token {name} at position i of s
TokenAt(s, name, i) ==
    /\ i + Len(name) + 1 <= Len(s)
    /\ s[i] = "{"
    /\ SubSeq(s, i + 1, i + Len(name)) = name
    /\ s[i + Len(name) + 1] = "}"

IsIdentifier(name) == name # << >> /\ \A n \in 1..Len(name) : name[n] \in IdentChars

\* the identifiers that occur as a {identifier} token of s
TokenNames(s) ==
    { name \in { SubSeq(s, i + 1, j - 1) : i \in 1..Len(s), j \in 1..Len(s) } :
        IsIdentifier(name) /\ \E i \in 1..Len(s) : TokenAt(s, name, i) }

FirstOccurrence(s, name) ==
    CHOOSE i \in 1..Len(s) : TokenAt(s, name, i) /\ \A j \in 1..(i - 1) : ~TokenAt(s, name, j)

(***************************************************************************)
(* C11: the placeholder list of a template holds each identifier that      *)
(* occurs as a {identifier} token of the content exactly once, ordered by  *)
(* first occurrence, and never modid or modid_safe; unmatched braces give  *)
(* no token.                                                               *)
(***************************************************************************)
C11_PlaceholdersOfContent ==
    t_pc = "loaded" =>
        /\ Range(t_placeholders) = TokenNames(t_content) \ { Modid, ModidSafe }
        /\ \A i, j \in 1..Len(t_placeholders) :
              i < j => /\ t_placeholders[i] # t_placeholders[j]
                       /\ FirstOccurrence(t_content, t_placeholders[i])
                            < FirstOccurrence(t_content, t_placeholders[j])

\* {tool}{modid}{tool} gives the one placeholder tool
C11_Witness ==
    /\ t_pc = "loaded"
    /\ t_content = Placeholder(Tool) \o ModidToken \o Placeholder(Tool)
    /\ t_placeholders = << Tool >>

(***************************************************************************)
(* SpecRewrite: apply on contents joined from up to MaxTokens tokens, for  *)
(* combinations of none, one and two types, under rule lists without and   *)
(* with overrides; the core engine is then run again on its own output.    *)
(***************************************************************************)
Axe     == << "a", "x", "e" >>
PfmAxe  == << "p", "f", "m", ":", "a", "x", "e" >>
X       == << "x" >>
Y       == << "y" >>
Z       == << "z" >>

RewriteTokens ==
    { ModidToken, ModidSafeToken, Placeholder(Tree), Placeholder(Tool), Placeholder(Foo), X }

RewriteContents ==
    UNION { { Join(ps) : ps \in [1..n -> RewriteTokens] } : n \in 0..MaxTokens }

RewriteCombos ==
    { << >>,
      << [k |-> Tree, v |-> Oak] >>,
      << [k |-> Tree, v |-> PfmOak] >>,
      << [k |-> Tree, v |-> MinecraftOak], [k |-> Tool, v |-> PfmAxe] >>,
      << [k |-> Tool, v |-> PfmAxe], [k |-> Tree, v |-> Oak] >>,
      << [k |-> Foo, v |-> Birch] >> }

Rule(t, vals, ex) == [ type |-> t, values |-> vals, extra |-> ex, enabled |-> TRUE ]

\* extra of the tree rule: x -> y under "*", y -> z under "oak", z -> x
\* under "pfm:oak", x -> oak under "birch"; its keys in the order ord
ChainExtra(ord) ==
    LET tiers == << [k |-> Star,   v |-> << [k |-> X, v |-> Y] >>],
                    [k |-> Oak,    v |-> << [k |-> Y, v |-> Z] >>],
                    [k |-> PfmOak, v |-> << [k |-> Z, v |-> X] >>],
                    [k |-> Birch,  v |-> << [k |-> X, v |-> Oak] >>] >>
    IN  [i \in 1..4 |-> tiers[ord[i]]]

\* extra of the tool rule: {foo} -> x and x -> xx under "*"
ToolExtra ==
    << [k |-> Star, v |-> << [k |-> Placeholder(Foo), v |-> X], [k |-> X, v |-> X \o X] >>] >>

\* extra of the tree rule: y -> z under "*", x -> y under "oak"
BackExtra ==
    << [k |-> Star, v |-> << [k |-> Y, v |-> Z] >>],
       [k |-> Oak,  v |-> << [k |-> X, v |-> Y] >>] >>

RewriteRules ==
    { << >>,
      << Rule(Tree, << Oak, PfmOak >>, << >>), Rule(Tool, << PfmAxe >>, << >>) >>,
      << Rule(Tree, << Oak, PfmOak >>, ChainExtra(<< 1, 2, 3, 4 >>)) >>,
      << Rule(Tree, << Oak, PfmOak >>, ChainExtra(<< 3, 4, 2, 1 >>)) >>,
      << Rule(Tool, << PfmAxe >>, ToolExtra),
         Rule(Tree, << Oak, PfmOak >>, ChainExtra(<< 2, 1, 4, 3 >>)) >>,
      << Rule(Tree, << Oak, PfmOak >>, ChainExtra(<< 1, 2, 3, 4 >>)),
         Rule(Tool, << PfmAxe >>, ToolExtra) >>,
      << Rule(Tree, << Oak, PfmOak >>, BackExtra) >>,
      << Rule(Tree, << Oak >>, ToolExtra),
         Rule(Tree, << Oak, PfmOak >>, ChainExtra(<< 1, 2, 3, 4 >>)) >> }

InitRewrite ==
    /\ e_pc = "input"
    /\ rules \in RewriteRules
    /\ placeholders = << >>
    /\ default_namespace \in { Minecraft, Pfm, << "n", "s" >> }
    /\ combination \in RewriteCombos
    /\ content \in RewriteContents
    /\ result_core = Empty
    /\ result_legacy = Empty
    /\ result_again = Empty
    /\ ResolveIdle
    /\ CombosIdle
    /\ RunIdle
    /\ BatchIdle
    /\ LoadIdle
    /\ TemplateIdle
    /\ ExtraIdle

\* apply(apply(content, combo), combo) on the core engine
ApplyCoreAgain ==
    /\ e_pc = "done"
    /\ result_again' =
          Core_apply(result_core, combination, Service_engine_rules(rules), default_namespace)
    /\ e_pc' = "again"
    /\ UNCHANGED << content, combination, result_core, result_legacy, configVars, notApply >>

NextRewrite == ApplyCore \/ ApplyLegacy \/ ApplyCoreAgain

SpecRewrite == InitRewrite /\ [][NextRewrite]_vars

Applied == e_pc \in { "done", "again" }

\* the rules whose type is in the combination carry no override
NoOverride ==
    \A i \in 1..Len(rules) : DictHas(combination, rules[i].type) => rules[i].extra = << >>

\* the full namespace resolved for the first type of the combination
FirstNamespace ==
    IF combination = << >> THEN default_namespace
    ELSE IF HasChar(combination[1].v, Colon)
         THEN SplitFirst(combination[1].v, Colon)[1] \o << Colon >>
         ELSE default_namespace

\* s with each {modid} and each {modid_safe} token replaced in one pass
RECURSIVE WithModid(_, _, _, _)
WithModid(s, i, modid, modid_safe) ==
    IF i > Len(s) THEN << >>
    ELSE IF OccursAt(s, ModidToken, i)
         THEN modid \o WithModid(s, i + Len(ModidToken), modid, modid_safe)
         ELSE IF OccursAt(s, ModidSafeToken, i)
              THEN modid_safe \o WithModid(s, i + Len(ModidSafeToken), modid, modid_safe)
              ELSE << s[i] >> \o WithModid(s, i + 1, modid, modid_safe)

\* ':' for '_' character by character
Underscored(ns) == [i \in 1..Len(ns) |-> IF ns[i] = Colon THEN Underscore ELSE ns[i]]

ExpectedSafe(ns) == IF ns = Minecraft THEN Empty ELSE Underscored(ns)

\* the type placeholders of the combination, in a text that holds no modid token
TypesApplied(text, default_ns) ==
    ApplyTypePlaceholders(text, Core_parse_combo(combination, default_ns), 1)

(***************************************************************************)
(* C12: in apply, every {modid} of the content is replaced by the full     *)
(* namespace resolved for the first type of the combination, and every     *)
(* {modid_safe} by "" when that namespace is "minecraft:" and by the       *)
(* namespace with ':' replaced by '_' otherwise; with an empty combination *)
(* the default namespace is used in the same way.  Core and legacy engine. *)
(***************************************************************************)
C12_ModidFromFirstType ==
    (Applied /\ NoOverride) =>
        LET expected == TypesApplied(
                WithModid(content, 1, FirstNamespace, ExpectedSafe(FirstNamespace)),
                default_namespace)
        IN  /\ result_core = expected
            /\ result_legacy = expected

\* {modid}{modid_safe} for a combination whose first type selects pfm:axe,
\* under the default namespace minecraft:
C12_Witness ==
    /\ Applied
    /\ NoOverride
    /\ content = ModidToken \o ModidSafeToken
    /\ Len(combination) = 2
    /\ combination[1].v = PfmAxe
    /\ default_namespace = Minecraft
    /\ result_core = << "p", "f", "m", ":", "p", "f", "m", "_" >>

\* the {name} tokens of the content that apply has no value for
UnmatchedNames ==
    TokenNames(content) \ ({ Modid, ModidSafe } \cup Range(DictKeys(combination)))

BasicOnly ==
    Core_apply_basic(content, combination, Core_parse_combo(combination, default_namespace),
                     default_namespace)

(***************************************************************************)
(* C13 as stated: every {name} token of the content whose name is not      *)
(* modid, modid_safe or a key of the combination is present unchanged in   *)
(* the output of apply.                                                    *)
(***************************************************************************)
C13_Original ==
    Applied =>
        \A name \in UnmatchedNames :
            /\ Contains(result_core, Placeholder(name))
            /\ Contains(result_legacy, Placeholder(name))

(***************************************************************************)
(* C13: apply returns a text for every content and combination; every      *)
(* {name} token whose name is not modid, modid_safe or a key of the        *)
(* combination is unchanged by the basic pass, and is in the output when   *)
(* no rule whose type is in the combination carries an override (an        *)
(* override is a literal replacement and can rewrite such a token).        *)
(***************************************************************************)
C13_UnmatchedSurviveBasicPass ==
    Applied =>
        \A name \in UnmatchedNames :
            /\ Contains(BasicOnly, Placeholder(name))
            /\ NoOverride => /\ Contains(result_core, Placeholder(name))
                             /\ Contains(result_legacy, Placeholder(name))

\* {foo}{tool} for the combination tree = oak under rules for tree and tool
\* without overrides
C13_Witness ==
    /\ Applied
    /\ NoOverride
    /\ Len(rules) = 2
    /\ content = Placeholder(Foo) \o Placeholder(Tool)
    /\ combination = << [k |-> Tree, v |-> Oak] >>
    /\ result_core = content
    /\ result_legacy = content

\* the override entries apply runs for the combination, each with the
\* position of its tier: rules in index order, and "*", name, full value
\* within a rule
TierKey(i, t) ==
    LET triple == Core_resolve(DictGet(combination, Service_engine_rules(rules)[i].k),
                               default_namespace)
    IN  IF t = 1 THEN Star ELSE IF t = 2 THEN triple[1] ELSE triple[2] \o triple[1]

SelectedEntries ==
    LET index == Service_engine_rules(rules)
    IN  UNION { UNION { { [ tier |-> 3 * (i - 1) + t, old |-> e.k, new |-> e.v ] :
                            e \in Range(DictGet(index[i].v.extra, TierKey(i, t))) }
                        : t \in { u \in 1..3 : DictHas(index[i].v.extra, TierKey(i, u)) } }
                : i \in { j \in 1..Len(index) : DictHas(combination, index[j].k) } }

NoPlaceholderOfCombination(text) ==
    \A i \in 1..Len(combination) : ~Contains(text, Placeholder(combination[i].k))

\* an override replacement holds a substring that a later tier matches
LaterTierReintroduced ==
    \E e1, e2 \in SelectedEntries : e1.tier < e2.tier /\ Contains(e1.new, e2.old)

(***************************************************************************)
(* C14 as stated: if r = apply(c, k) contains no placeholder of k, then    *)
(* apply(r, k) = r, except only when an override replacement reintroduces  *)
(* a substring that a later tier matches.                                  *)
(***************************************************************************)
C14_Original ==
    (e_pc = "again" /\ NoPlaceholderOfCombination(result_core) /\ ~LaterTierReintroduced)
        => result_again = result_core

(***************************************************************************)
(* C14: apply is a fixed point on its own output r whenever r contains no  *)
(* placeholder of k, no {modid} or {modid_safe}, and no search string of   *)
(* an override entry that applies to k; an r that still holds such a       *)
(* search string (of a later, the same or an earlier tier) is rewritten    *)
(* again.                                                                  *)
(***************************************************************************)
C14_FixedPointWithoutSearchStrings ==
    ( /\ e_pc = "again"
      /\ NoPlaceholderOfCombination(result_core)
      /\ ~Contains(result_core, ModidToken)
      /\ ~Contains(result_core, ModidSafeToken)
      /\ \A e \in SelectedEntries : ~Contains(result_core, e.old) )
        => result_again = result_core

\* the chain x -> y -> z ran on "x" for tree = oak under minecraft:, and
\* the second apply left "z" alone
C14_Witness ==
    /\ e_pc = "again"
    /\ content = X
    /\ combination = << [k |-> Tree, v |-> Oak] >>
    /\ default_namespace = Minecraft
    /\ Cardinality(SelectedEntries) = 2
    /\ \E e \in SelectedEntries : e.tier = 2 /\ e.old = Y
    /\ result_core = Z
    /\ result_again = Z

(***************************************************************************)
(* SpecPipeline: one template through _process_template, by RecipeService  *)
(* on the core engine and by RecipeGenerator on the legacy engine: the     *)
(* combinations, and the (filename, content) pair computed for each.       *)
(***************************************************************************)
\* src/template.py Template._scan: set(all_matches) - SYSTEM_KEYS
Legacy_scan(text) == Range(FindAll(text, 1)) \ { Modid, ModidSafe }

\* the spec's file name convention: type_value pairs joined by "_", then .json
RECURSIVE PairsJoined(_, _)
PairsJoined(combo, i) ==
    IF i > Len(combo) THEN << >>
    ELSE (IF i = 1 THEN << >> ELSE << Underscore >>)
         \o combo[i].k \o << Underscore >> \o Replace(combo[i].v, << Colon >>, << Underscore >>)
         \o PairsJoined(combo, i + 1)

DotJson == << ".", "j", "s", "o", "n" >>

\* a file name built from the combination alone
Service_filename_FromCombo(name, combo, index, default_ns) ==
    PairsJoined(combo, 1) \o DotJson

\* RecipeService._process_template: the file name of one combination
Service_filename(name, combo, index, default_ns) ==
    Replace(Replace(Replace(Core_apply(name, combo, index, default_ns),
                            << Colon >>, << Underscore >>),
                    << "/" >>, << Underscore >>),
            << "\\" >>, << Underscore >>)

\* RecipeGenerator._generate_single: safe_filename
Generator_filename(name, combo, rs, default_ns) ==
    Replace(Legacy_apply(name, combo, rs, default_ns), << Colon >>, << Underscore >>)

PipelineRules ==
    { << >>,
      << Rule(Tree, << Oak, Birch >>, << >>) >>,
      << Rule(Tree, << Birch, Oak, PfmOak >>, << >>) >>,
      << Rule(Tree, << Oak, Oak >>, << >>) >>,
      << Rule(Tree, << >>, << >>) >>,
      << Rule(Tool, << Axe >>, << >>) >>,
      << Rule(Tool, << Axe >>, << >>), Rule(Tree, << Oak, Birch >>, << >>) >>,
      << Rule(Tree, << Oak, Birch >>, << >>), Rule(Tool, << PfmAxe, Axe >>, << >>) >>,
      << Rule(Tree, << Oak, PfmOak >>, BackExtra) >> }

PipelineContents ==
    { ModidToken \o Placeholder(Tree),
      Placeholder(Tree),
      Placeholder(Tree) \o << Underscore >> \o Placeholder(Tool),
      ModidSafeToken \o Placeholder(Tool) \o X }

PipelineNames ==
    { TreeJson, << "{", "t", "r", "e", "e", "}", "_", "{", "t", "o", "o", "l", "}", ".", "j", "s", "o", "n" >>, << "{", "m", "o", "d", "i", "d", "}", "{", "t", "r", "e", "e", "}", ".", "j", "s", "o", "n" >>, << "t", "r", "e", "e", "_", "{", "t", "r", "e", "e", "}", ".", "j", "s", "o", "n" >>, << "a", ".", "j", "s", "o", "n" >> }

InitPipeline ==
    /\ t_pc = "new"
    /\ t_name \in PipelineNames
    /\ t_content \in PipelineContents
    /\ t_placeholders = << >>
    /\ t_combos = << >>
    /\ t_outputs = << >>
    /\ t_legacy_outputs = << >>
    /\ rules \in PipelineRules
    /\ placeholders = << >>
    /\ default_namespace \in { Minecraft, Pfm }
    /\ ResolveIdle
    /\ CombosIdle
    /\ ApplyIdle
    /\ RunIdle
    /\ BatchIdle
    /\ LoadIdle
    /\ ExtraIdle

\* RecipeService._process_template: generate_combinations, then the file
\* name and the content of each combination (the write is in SpecRun)
ProcessTemplate ==
    /\ t_pc = "loaded"
    /\ \E order \in Orderings(Range(t_placeholders)) :
          LET index == Service_engine_rules(rules)
              cs    == Core_generate_combinations(index, order)
          IN  /\ t_combos' = cs
              /\ t_outputs' =
                    [i \in 1..Len(cs) |->
                        [ filename |-> Service_filename(t_name, cs[i], index, default_namespace),
                          content  |-> Core_apply(t_content, cs[i], index, default_namespace) ]]
    /\ t_pc' = "processed"
    /\ UNCHANGED << t_name, t_content, t_placeholders, t_legacy_outputs, configVars,
                    notTemplate >>

\* RecipeGenerator._process_template with _generate_single, on the same
\* template file; its Template holds the placeholders as a set
GeneratorProcessTemplate ==
    /\ t_pc = "processed"
    /\ \E order \in Orderings(Legacy_scan(t_content)) :
          LET tuples == CombinationGenerator_generate(get_active_rules(rules),
                                                      Legacy_scan(t_content))
              dicts  == RecipeGenerator_combo_dicts(tuples, order)
          IN  t_legacy_outputs' =
                  [i \in 1..Len(dicts) |->
                      [ combo    |-> dicts[i],
                        filename |-> Generator_filename(t_name, dicts[i], rules,
                                                        default_namespace),
                        content  |-> Legacy_apply(t_content, dicts[i], rules,
                                                  default_namespace) ]]
    /\ t_pc' = "legacy"
    /\ UNCHANGED << t_name, t_content, t_placeholders, t_combos, t_outputs, configVars,
                    notTemplate >>

NextPipeline == TemplateLoad \/ ProcessTemplate \/ GeneratorProcessTemplate

SpecPipeline == InitPipeline /\ [][NextPipeline]_vars

Processed == t_pc \in { "processed", "legacy" }

\* the part of a value after its first ':', the whole value when it has none
BareName(v) ==
    IF HasChar(v, Colon)
    THEN LET i == CHOOSE n \in 1..Len(v) : v[n] = Colon /\ \A m \in 1..(n - 1) : v[m] # Colon
         IN  SubSeq(v, i + 1, Len(v))
    ELSE v

\* one enabled rule of type tree, without overrides
OneTreeRule ==
    /\ Len(rules) = 1
    /\ rules[1].type = Tree
    /\ rules[1].enabled
    /\ rules[1].extra = << >>

(***************************************************************************)
(* C15: with one enabled rule of type tree whose values are bare names     *)
(* v1..vn and default namespace D, the template content {modid}{tree}      *)
(* yields exactly n outputs, D+v1 ... D+vn in value order; each {type}     *)
(* placeholder is replaced by the bare name of the selected value.         *)
(***************************************************************************)
C15_EndToEnd ==
    (Processed /\ OneTreeRule) =>
        LET values == rules[1].values
        IN  /\ t_content = ModidToken \o Placeholder(Tree)
               /\ (\A i \in 1..Len(values) : ~HasChar(values[i], Colon))
               => /\ Len(t_outputs) = Len(values)
                  /\ \A i \in 1..Len(values) :
                        t_outputs[i].content = default_namespace \o values[i]
            /\ t_content = Placeholder(Tree)
               => /\ Len(t_outputs) = Len(values)
                  /\ \A i \in 1..Len(values) : t_outputs[i].content = BareName(values[i])

\* {modid}{tree} for the values oak, birch under minecraft:
C15_Witness ==
    /\ Processed
    /\ OneTreeRule
    /\ rules[1].values = << Oak, Birch >>
    /\ default_namespace = Minecraft
    /\ t_content = ModidToken \o Placeholder(Tree)
    /\ Len(t_outputs) = 2
    /\ t_outputs[1].content = MinecraftOak
    /\ t_outputs[2].content = Minecraft \o Birch

\* ':' , '/' and '\' for '_', character by character
PathSafe(s) == [i \in 1..Len(s) |-> IF s[i] \in { Colon, "/", "\\" } THEN Underscore ELSE s[i]]

LastComponent(id) ==
    IF HasChar(id, Colon)
    THEN LET i == CHOOSE n \in 1..Len(id) :
                     id[n] = Colon /\ \A m \in (n + 1)..Len(id) : id[m] # Colon
         IN  SubSeq(id, i + 1, Len(id))
    ELSE id

\* the key template with its three placeholders substituted in one pass
RECURSIVE KeySubstituted(_, _, _)
KeySubstituted(s, i, item) ==
    IF i > Len(s) THEN << >>
    ELSE IF OccursAt(s, Placeholder(MaterialId), i)
         THEN LastComponent(item.id) \o KeySubstituted(s, i + Len(MaterialId) + 2, item)
    ELSE IF OccursAt(s, Placeholder(ModidSafe), i)
         THEN ExpectedSafe(item.namespace) \o KeySubstituted(s, i + Len(ModidSafe) + 2, item)
    ELSE IF OccursAt(s, Placeholder(Category), i)
         THEN item.category \o KeySubstituted(s, i + Len(Category) + 2, item)
    ELSE << s[i] >> \o KeySubstituted(s, i + 1, item)

\* every underscore that follows an underscore dropped
RECURSIVE RunsCollapsed(_, _)
RunsCollapsed(s, i) ==
    IF i > Len(s) THEN << >>
    ELSE (IF i > 1 /\ s[i] = Underscore /\ s[i - 1] = Underscore THEN << >> ELSE << s[i] >>)
         \o RunsCollapsed(s, i + 1)

\* the text between the first and the last character that is no underscore
Trimmed(s) ==
    LET inner == { n \in 1..Len(s) : s[n] # Underscore }
    IN  IF inner = { } THEN << >>
        ELSE SubSeq(s, CHOOSE n \in inner : \A m \in inner : n <= m,
                       CHOOSE n \in inner : \A m \in inner : m <= n)

StemSpecial(item) == item.id \in { MinecraftCrimson, MinecraftWarped }

ExpectedKey(key_template, item) ==
    LET k == KeySubstituted(key_template, 1, item)
    IN  Trimmed(RunsCollapsed(
            IF StemSpecial(item)
            THEN Replace(Replace(k, << "_", "l", "o", "g", "_" >>, << "_", "s", "t", "e", "m", "_" >>), << "t", "a", "b", "l", "e", "_", "l", "o", "g" >>, << "t", "a", "b", "l", "e", "_", "s", "t", "e", "m" >>)
            ELSE k, 1))

\* the key template holds one of the item's skip patterns at some position
Skipped(key_template, item) ==
    \E p \in Range(item.skip_patterns) :
        \E i \in 1..(Len(key_template) + 1) : OccursAt(key_template, p, i)

\* the template generate_batch was called for, and the entries it returned
\* for item n of results
BatchTemplate == DictGet(templates, template_name)
ItemOf(n)     == DictGet(items, results[n].k)
EntriesOf(n)  == results[n].v
KeptEntries(n) ==
    { e \in Range(BatchTemplate) : ~Skipped(e.k, ItemOf(n)) }

BatchDone == b_pc = "done" /\ DictHas(templates, template_name)

(***************************************************************************)
(* C16: in key construction, after {material_id} (the id's component after *)
(* its last ':'), {modid_safe} and {category} are substituted, _log_ ->    *)
(* _stem_ and table_log -> table_stem are applied if and only if the id is *)
(* exactly minecraft:crimson or minecraft:warped; then runs of underscores *)
(* are collapsed and leading and trailing underscores stripped.            *)
(***************************************************************************)
C16_KeyConstruction ==
    BatchDone =>
        \A n \in 1..Len(results) :
            \A e \in KeptEntries(n) :
                /\ DictHas(EntriesOf(n), ExpectedKey(e.k, ItemOf(n)))
                /\ e = TableEntry =>
                      DictHas(EntriesOf(n),
                              << "b", "l", "o", "c", "k", ".", "p", "f", "m", "." >> \o LastComponent(ItemOf(n).id)
                                \o (IF StemSpecial(ItemOf(n)) THEN << "_", "s", "t", "e", "m", "_" >> ELSE << "_", "l", "o", "g", "_" >>)
                                \o << "t", "a", "b", "l", "e" >>)

\* block.pfm.{material_id}_log_table gave block.pfm.crimson_stem_table for
\* minecraft:crimson, block.pfm.crimson_log_table for pfm:crimson, and the
\* key of every placeholder was collapsed and stripped for minecraft:oak
C16_Witness ==
    /\ BatchDone
    /\ \E n \in 1..Len(results) :
          /\ results[n].k = MinecraftCrimson
          /\ DictHas(EntriesOf(n), << "b", "l", "o", "c", "k", ".", "p", "f", "m", ".", "c", "r", "i", "m", "s", "o", "n", "_", "s", "t", "e", "m", "_", "t", "a", "b", "l", "e" >>)
    /\ \E n \in 1..Len(results) :
          /\ results[n].k = << "p", "f", "m", ":", "c", "r", "i", "m", "s", "o", "n" >>
          /\ DictHas(EntriesOf(n), << "b", "l", "o", "c", "k", ".", "p", "f", "m", ".", "c", "r", "i", "m", "s", "o", "n", "_", "l", "o", "g", "_", "t", "a", "b", "l", "e" >>)
    /\ \E n \in 1..Len(results) :
          /\ results[n].k = MinecraftOak
          /\ DictHas(EntriesOf(n), << "o", "a", "k", "_", "m", "a", "t", "e", "r", "i", "a", "l" >>)

(***************************************************************************)
(* C17: generate_for_item produces an entry for a (key_template,           *)
(* value_template) pair if and only if key_template contains none of the   *)
(* item's skip_patterns as a substring; the check is made on the key       *)
(* template before substitution, and an item with empty skip_patterns      *)
(* skips nothing.                                                          *)
(***************************************************************************)
C17_SkipOnKeyTemplate ==
    BatchDone =>
        \A n \in 1..Len(results) :
            /\ KeySet(EntriesOf(n)) = { _build_real_key(e.k, ItemOf(n)) : e \in KeptEntries(n) }
            /\ Len(EntriesOf(n)) = Cardinality(KeptEntries(n))
            /\ ItemOf(n).skip_patterns = << >> => Len(EntriesOf(n)) = Len(BatchTemplate)

\* pfm:crimson with the patterns "crimson" and "id}_chair": the chair entry
\* was skipped, the other two were generated with "crimson" in their keys
C17_Witness ==
    /\ BatchDone
    /\ Len(BatchTemplate) = 3
    /\ \E n \in 1..Len(results) :
          /\ results[n].k = << "p", "f", "m", ":", "c", "r", "i", "m", "s", "o", "n" >>
          /\ Len(EntriesOf(n)) = 2
          /\ ~DictHas(EntriesOf(n), << "b", "l", "o", "c", "k", ".", "p", "f", "m", ".", "c", "r", "i", "m", "s", "o", "n", "_", "c", "h", "a", "i", "r" >>)
          /\ DictHas(EntriesOf(n), << "b", "l", "o", "c", "k", ".", "p", "f", "m", ".", "c", "r", "i", "m", "s", "o", "n", "_", "l", "o", "g", "_", "t", "a", "b", "l", "e" >>)

\* the replacements whose key does not start with '_', in map order
RECURSIVE NonMetadataApplied(_, _)
NonMetadataApplied(text, pairs) ==
    IF pairs = << >> THEN text
    ELSE NonMetadataApplied(
            IF pairs[1].k # << >> /\ pairs[1].k[1] = Underscore THEN text
            ELSE Replace(text, pairs[1].k, pairs[1].v),
            Tail(pairs))

\* text without the characters at the positions that hold whitespace
WithoutWhitespace(text) ==
    LET kept == { n \in 1..Len(text) : text[n] \notin Whitespace }
        RECURSIVE Nth(_, _)
        Nth(S, k) == LET m == CHOOSE x \in S : \A y \in S : x <= y
                     IN  IF k = 1 THEN m ELSE Nth(S \ { m }, k - 1)
    IN  [k \in 1..Cardinality(kept) |-> text[Nth(kept, k)]]

ExpectedValue(value_template, item) ==
    WithoutWhitespace(NonMetadataApplied(
        Core_apply(value_template, _build_combo(item), Core_index(rules), default_namespace),
        item.replacements))

(***************************************************************************)
(* C18: every generated localization value is the engine's apply result    *)
(* passed through item.apply_replacements: each replacement whose key does *)
(* not start with '_' is applied as a literal replace-all in map order,    *)
(* each seeing the result of the previous one, no replacement whose key    *)
(* starts with '_' is applied, and afterwards every whitespace character   *)
(* is removed, so no generated value contains whitespace.                  *)
(***************************************************************************)
C18_ValuePostProcessing ==
    BatchDone =>
        \A n \in 1..Len(results) :
            /\ \A e \in KeptEntries(n) :
                  DictGet(EntriesOf(n), _build_real_key(e.k, ItemOf(n)))
                      = ExpectedValue(e.v, ItemOf(n))
            /\ \A m \in 1..Len(EntriesOf(n)) :
                  \A c \in Range(EntriesOf(n)[m].v) : c \notin Whitespace

\* minecraft:warped with the replacements _log -> x, log -> wood,
\* wood -> stem: "{material_zh_cn}_log table" gave "Warp_stemtable"
C18_Witness ==
    /\ BatchDone
    /\ \E n \in 1..Len(results) :
          /\ results[n].k = MinecraftWarped
          /\ DictHas(EntriesOf(n), << "b", "l", "o", "c", "k", ".", "p", "f", "m", ".", "w", "a", "r", "p", "e", "d", "_", "s", "t", "e", "m", "_", "t", "a", "b", "l", "e" >>)
          /\ DictGet(EntriesOf(n), << "b", "l", "o", "c", "k", ".", "p", "f", "m", ".", "w", "a", "r", "p", "e", "d", "_", "s", "t", "e", "m", "_", "t", "a", "b", "l", "e" >>) = << "W", "a", "r", "p", "_", "s", "t", "e", "m", "t", "a", "b", "l", "e" >>

\* the three tier keys of a rule for the value the combination selects for
\* its type: "*", the bare name, the full namespace + name
TierKeysOf(rule) ==
    LET val  == DictGet(combination, rule.type)
        name == BareName(val)
        ns   == IF HasChar(val, Colon)
                THEN SubSeq(val, 1, Len(val) - Len(name))
                ELSE default_namespace
    IN  << Star, name, ns \o name >>

\* the entries of rule under its three tier keys applied to text, tier
\* after tier, every replacement on the text the previous one left
RECURSIVE TiersApplied(_, _, _)
TiersApplied(text, rule, t) ==
    IF t > 3 THEN text
    ELSE TiersApplied(
            IF DictHas(rule.extra, TierKeysOf(rule)[t])
            THEN ApplyPairs(text, DictGet(rule.extra, TierKeysOf(rule)[t]), 1)
            ELSE text,
            rule, t + 1)

\* the rules of rs whose type is in the combination, one after the other
RECURSIVE OverridesApplied(_, _)
OverridesApplied(text, rs) ==
    IF rs = << >> THEN text
    ELSE OverridesApplied(
            IF DictHas(combination, Head(rs).type) THEN TiersApplied(text, Head(rs), 1)
            ELSE text,
            Tail(rs))

\* for each type at the place of its first rule, the last rule of that type
IndexedRules ==
    LET firsts == SelectSeq([i \in 1..Len(rules) |-> i],
                            LAMBDA i : \A j \in 1..(i - 1) : rules[j].type # rules[i].type)
    IN  [n \in 1..Len(firsts) |-> LastRuleOfType(rules[firsts[n]].type)]

(***************************************************************************)
(* C20 as stated: the override pass visits the rules whose type is in the  *)
(* combination in rule-definition order and applies for each the entries   *)
(* keyed "*", then the bare name, then the full namespace + name.          *)
(***************************************************************************)
C20_Original ==
    Applied => result_core = OverridesApplied(BasicOnly, rules)

(***************************************************************************)
(* C20: the override pass visits the types of the rule list in the order   *)
(* of their first rule, with the last rule listed for each type (for rules *)
(* of distinct types: the rules in definition order); for each one whose   *)
(* type is in the combination it applies only the extra entries keyed "*", *)
(* then the resolved bare name, then the resolved full namespace + name,   *)
(* in that order whatever the order of the keys in the rule; entries under *)
(* any other key are never applied, and each replacement operates on the   *)
(* text left by the earlier ones.                                          *)
(***************************************************************************)
C20_TierOrder ==
    Applied => result_core = OverridesApplied(BasicOnly, IndexedRules)

\* the rule lists its keys as "pfm:oak", "birch", "oak", "*"; for
\* tree = pfm:oak the text x went x -> y -> z -> x
C20_Witness ==
    /\ Applied
    /\ Len(rules) = 1
    /\ Len(rules[1].extra) = 4
    /\ rules[1].extra[1].k = PfmOak
    /\ combination = << [k |-> Tree, v |-> PfmOak] >>
    /\ content = X
    /\ result_core = X

(***************************************************************************)
(* SpecExplain: apply(content, combo, explain_log) on both engines, with   *)
(* explain_log None, an empty list and a list that already holds a line.   *)
(***************************************************************************)
notExplain == << resolveVars, comboVars, runVars, batchVars, loadVars, templateVars,
                statsVars, settingsVars, startVars >>

ExplainTokens == { ModidToken, Placeholder(Tree), Placeholder(Tool), X }

ExplainContents ==
    UNION { { Join(ps) : ps \in [1..n -> ExplainTokens] } : n \in 0..MaxTokens }

ExplainRules ==
    { << >>,
      << Rule(Tree, << Oak, PfmOak >>, ChainExtra(<< 1, 2, 3, 4 >>)) >>,
      << Rule(Tool, << PfmAxe >>, ToolExtra),
         Rule(Tree, << Oak, PfmOak >>, ChainExtra(<< 2, 1, 4, 3 >>)) >> }

EarlierLine == LogLine("earlier", Empty, Empty, Empty)

ExplainLogs ==
    { NoLog,
      [ given |-> TRUE, lines |-> << >> ],
      [ given |-> TRUE, lines |-> << EarlierLine >> ] }

InitExplain ==
    /\ e_pc = "input"
    /\ rules \in ExplainRules
    /\ placeholders = << >>
    /\ default_namespace \in { Minecraft, Pfm }
    /\ combination \in RewriteCombos
    /\ content \in ExplainContents
    /\ explain_log \in ExplainLogs
    /\ log_core = NoLog
    /\ log_legacy = NoLog
    /\ result_core = Empty
    /\ result_legacy = Empty
    /\ result_again = Empty
    /\ ResolveIdle
    /\ CombosIdle
    /\ RunIdle
    /\ BatchIdle
    /\ LoadIdle
    /\ TemplateIdle
    /\ StatsIdle
    /\ SettingsIdle
    /\ StartIdle

\* content = self.engine.apply(template.content, combo, explain_log), core
\* engine; the list passed is the one the caller still holds afterwards
ExplainCore ==
    /\ e_pc = "input"
    /\ LET r == Core_apply_explain(content, combination, Service_engine_rules(rules),
                                   default_namespace, explain_log)
       IN  /\ result_core' = r.result
           /\ log_core' = r.log
    /\ e_pc' = "core"
    /\ UNCHANGED << content, combination, result_legacy, result_again, explain_log,
                    log_legacy, configVars, notExplain >>

\* the same call on the legacy engine, with a list of the same lines
ExplainLegacy ==
    /\ e_pc = "core"
    /\ LET r == Legacy_apply_explain(content, combination, rules, default_namespace,
                                     explain_log)
       IN  /\ result_legacy' = r.result
           /\ log_legacy' = r.log
    /\ e_pc' = "done"
    /\ UNCHANGED << content, combination, result_core, result_again, explain_log,
                    log_core, configVars, notExplain >>

NextExplain == ExplainCore \/ ExplainLegacy

SpecExplain == InitExplain /\ [][NextExplain]_vars

Explained == e_pc = "done"

\* the lines of log after the ones the caller passed in
NewLines(log) == SubSeq(log.lines, Len(explain_log.lines) + 1, Len(log.lines))

\* the lines the caller passed in, as they stand in log
OldLines(log) == SubSeq(log.lines, 1, Len(explain_log.lines))

TypeLines(log) == SelectSeq(NewLines(log), LAMBDA l : l.kind = "replace")

OverrideLines(log) == SelectSeq(NewLines(log), LAMBDA l : l.kind # "replace")

\* the positions, in the combination's own order, of the types whose
\* placeholder occurs in the content
FoundTypes ==
    SelectSeq([i \in 1..Len(combination) |-> i],
              LAMBDA i : Contains(content, Placeholder(combination[i].k)))

\* one line per found type: its placeholder and the bare name that replaces it
ExpectedTypeLines ==
    [j \in 1..Len(FoundTypes) |->
        LogLine("replace", Empty, Placeholder(combination[FoundTypes[j]].k),
                BareName(combination[FoundTypes[j]].v))]

(***************************************************************************)
(* C22: when a list is supplied as explain_log, the type-placeholder pass  *)
(* of apply appends exactly one line for each type of the combination      *)
(* whose {type} placeholder occurs in the content, none for a type whose   *)
(* placeholder does not occur, in the order the pass meets the types (the  *)
(* combination's order), and the lines already in the list stay as they    *)
(* are; the returned text is the text apply returns without explain_log.   *)
(* Core and legacy engine.                                                 *)
(***************************************************************************)
C22_TypeLinesInLog ==
    Explained =>
        /\ result_core = Core_apply(content, combination, Service_engine_rules(rules),
                                    default_namespace)
        /\ result_legacy = Legacy_apply(content, combination, rules, default_namespace)
        /\ explain_log.given =>
              /\ log_core.given /\ log_legacy.given
              /\ OldLines(log_core) = explain_log.lines
              /\ OldLines(log_legacy) = explain_log.lines
              /\ TypeLines(log_core) = ExpectedTypeLines
              /\ TypeLines(log_legacy) = ExpectedTypeLines
        /\ ~explain_log.given => (log_core = NoLog /\ log_legacy = NoLog)

\* a list with an earlier line, a combination of tool then tree, a content
\* that names tree before tool and nothing else: two lines, tool's first
C22_Witness ==
    /\ Explained
    /\ explain_log.lines = << EarlierLine >>
    /\ Len(combination) = 2
    /\ combination[1].k = Tool
    /\ content = Placeholder(Tree) \o Placeholder(Tool)
    /\ Len(TypeLines(log_core)) = 2
    /\ TypeLines(log_core)[1].old = Placeholder(Tool)

(***************************************************************************)
(* C30: with a list passed as explain_log to the core engine's apply,      *)
(* every override replacement that fires appends one line, whether or not  *)
(* the list was empty when the override pass started.  So when the         *)
(* override pass changed the text, the list holds at least one override    *)
(* line.                                                                   *)
(***************************************************************************)
C30_FiredOverrideIsLogged ==
    (Explained /\ explain_log.given) =>
        LET info  == Core_parse_combo(combination, default_namespace)
            basic == Core_apply_basic(content, combination, info, default_namespace)
        IN  basic # result_core => OverrideLines(log_core) # << >>

(***************************************************************************)
(* C23: after LocalizerService.start_generation on a batch of n items of   *)
(* which k fail during generation, the reported statistics enumerate the   *)
(* failures: failed_items = k and successful_items = n - k, so             *)
(* successful_items + failed_items = total_items.                          *)
(***************************************************************************)
FailedItems == { i \in 1..Len(items) : GeneratedFor(items[i].k).raised }

C23_FailuresCounted ==
    b_pc = "complete" =>
        /\ stats.failed_items = Cardinality(FailedItems)
        /\ stats.successful_items = Len(items) - Cardinality(FailedItems)
        /\ stats.successful_items + stats.failed_items = stats.total_items

(***************************************************************************)
(* SpecSettings: SettingsService.add_template and remove_template on a     *)
(* configuration loaded from a file that selects up to MaxTemplates        *)
(* templates, for up to MaxCalls calls.                                    *)
(***************************************************************************)
notSettings == << resolveVars, configVars, comboVars, applyVars, runVars, batchVars,
                 loadVars, templateVars, explainVars, statsVars, startVars >>

SettingsFiles == { "a.json", "b.json", "c.json" }

\* the template_files of a configuration file: no name twice
SelectedLists ==
    UNION { { fs \in [1..n -> SettingsFiles] : \A i, j \in 1..n : fs[i] = fs[j] => i = j }
            : n \in 0..MaxTemplates }

InitSettings ==
    /\ config_loaded = FALSE
    /\ _template_files \in SelectedLists
    /\ s_calls = << >>
    /\ default_namespace = Minecraft
    /\ ResolveIdle
    /\ ConfigIdle
    /\ CombosIdle
    /\ ApplyIdle
    /\ RunIdle
    /\ BatchIdle
    /\ LoadIdle
    /\ TemplateIdle
    /\ ExplainIdle
    /\ StatsIdle
    /\ StartIdle

\* load_config: self.config = ConfigDAO.load(config_path)
LoadConfig ==
    /\ ~config_loaded
    /\ config_loaded' = TRUE
    /\ UNCHANGED << _template_files, s_calls, notSettings >>

\* Config.template_files (property): return self._template_files.copy()
Config_template_files == _template_files

\* list.remove(x): the first occurrence
ListRemove(l, x) ==
    LET i == CHOOSE n \in 1..Len(l) : l[n] = x /\ \A m \in 1..(n - 1) : l[m] # x
    IN  SubSeq(l, 1, i - 1) \o SubSeq(l, i + 1, Len(l))

Call(op, filename, returned) == [ op |-> op, filename |-> filename, returned |-> returned ]

\* add_template(filename): `self.config.template_files.append(filename)` appends
\* to the copy the property returned; the copy is dropped, no assignment to
\* the property and none to Config._template_files follows
AddTemplate ==
    /\ Len(s_calls) < MaxCalls
    /\ \E filename \in SettingsFiles :
          IF ~config_loaded
          THEN /\ s_calls' = Append(s_calls, Call("add", filename, FALSE))
               /\ UNCHANGED _template_files
          ELSE IF filename \notin Range(Config_template_files)
               THEN LET copy     == Config_template_files
                        appended == Append(copy, filename)
                    IN  /\ Len(appended) = Len(copy) + 1
                        /\ _template_files' = _template_files
                        /\ s_calls' = Append(s_calls, Call("add", filename, TRUE))
               ELSE /\ s_calls' = Append(s_calls, Call("add", filename, FALSE))
                    /\ UNCHANGED _template_files
    /\ UNCHANGED << config_loaded, notSettings >>

\* remove_template(filename): `self.config.template_files.remove(filename)`
\* removes from the copy the property returned
RemoveTemplate ==
    /\ Len(s_calls) < MaxCalls
    /\ \E filename \in SettingsFiles :
          IF ~config_loaded
          THEN /\ s_calls' = Append(s_calls, Call("remove", filename, FALSE))
               /\ UNCHANGED _template_files
          ELSE IF filename \in Range(Config_template_files)
               THEN LET copy    == Config_template_files
                        removed == ListRemove(copy, filename)
                    IN  /\ Len(removed) = Len(copy) - 1
                        /\ _template_files' = _template_files
                        /\ s_calls' = Append(s_calls, Call("remove", filename, TRUE))
               ELSE /\ s_calls' = Append(s_calls, Call("remove", filename, FALSE))
                    /\ UNCHANGED _template_files
    /\ UNCHANGED << config_loaded, notSettings >>

NextSettings == LoadConfig \/ AddTemplate \/ RemoveTemplate

SpecSettings == InitSettings /\ [][NextSettings]_vars

\* get_selected_templates(): self.config.template_files.copy(); the same list
\* is get_config_dict()["template_files"]
get_selected_templates == IF config_loaded THEN Config_template_files ELSE << >>

(***************************************************************************)
(* C24: SettingsService keeps the selected template list in step with      *)
(* add_template and remove_template: after add_template(f) returns True, f *)
(* is in get_selected_templates(), a second add_template(f) returns False, *)
(* and after remove_template(f) returns True, f is no longer selected; the *)
(* list never holds a duplicate.                                           *)
(***************************************************************************)
C24_SelectionInStep ==
    /\ \A i, j \in 1..Len(get_selected_templates) :
          get_selected_templates[i] = get_selected_templates[j] => i = j
    /\ s_calls # << >> =>
          LET last == s_calls[Len(s_calls)]
          IN  /\ (last.op = "add" /\ last.returned) =>
                    last.filename \in Range(get_selected_templates)
              /\ (last.op = "remove" /\ last.returned) =>
                    last.filename \notin Range(get_selected_templates)
    /\ \A n \in 1..(Len(s_calls) - 1) :
          (/\ s_calls[n].op = "add" /\ s_calls[n].returned
           /\ s_calls[n + 1].op = "add"
           /\ s_calls[n + 1].filename = s_calls[n].filename) => ~s_calls[n + 1].returned

(***************************************************************************)
(* C25: for an item whose id is minecraft:crimson or minecraft:warped, a   *)
(* key template that ends in _log is also rewritten to stem:               *)
(* block.pfm.stripped_{material_id}_log produces the key                   *)
(* block.pfm.stripped_crimson_stem.                                        *)
(***************************************************************************)
EndsWith(s, suffix) ==
    Len(s) >= Len(suffix) /\ SubSeq(s, Len(s) - Len(suffix) + 1, Len(s)) = suffix

C25_TrailingLogBecomesStem ==
    BatchDone =>
        \A n \in 1..Len(results) :
            \A e \in KeptEntries(n) :
                (StemSpecial(ItemOf(n)) /\ EndsWith(e.k, << "_", "l", "o", "g" >>)) =>
                    LET k == KeySubstituted(e.k, 1, ItemOf(n))
                    IN  DictHas(EntriesOf(n),
                                SubSeq(k, 1, Len(k) - 3) \o << "s", "t", "e", "m" >>)

(***************************************************************************)
(* C29: for every BatchItem and every template entry, a {modid_safe} token *)
(* in the value template is replaced by the string that replaces           *)
(* {modid_safe} in the key template of that item, the item's own namespace *)
(* token ("" for minecraft:, ns_ otherwise), whatever the engine's default *)
(* namespace is.                                                           *)
(***************************************************************************)
C29_ValueSafeFromItem ==
    BatchDone =>
        \A n \in 1..Len(results) :
            (SafeEntry \in KeptEntries(n)) =>
                DictGet(EntriesOf(n), _build_real_key(SafeEntry.k, ItemOf(n)))
                    = WithoutWhitespace(NonMetadataApplied(
                          ExpectedSafe(ItemOf(n).namespace) \o ItemOf(n).zh_cn,
                          ItemOf(n).replacements))

(***************************************************************************)
(* RecipeService.status: progress = round(processed / total * 100, 2),     *)
(* with processed = self._processed_count // 1.  The value is kept in      *)
(* hundredths; rounding to the nearest hundredth meets no tie for fewer    *)
(* than 32 templates.                                                      *)
(***************************************************************************)
status_progress ==
    IF total_templates > 0
    THEN (2 * 10000 * processed_count + total_templates) \div (2 * total_templates)
    ELSE 0

(***************************************************************************)
(* C28: in every reachable state of a RecipeService run, the progress      *)
(* reported by status lies between 0 and 100 inclusive, i.e. the processed *)
(* count it is computed from never exceeds total_templates.                *)
(***************************************************************************)
C28_ProgressWithinRange ==
    /\ 0 <= status_progress
    /\ status_progress <= 100 * 100
    /\ processed_count <= total_templates

(***************************************************************************)
(* SpecRunFair: the runs of SpecRun with a worker thread that, once        *)
(* started, is scheduled until it returns; nothing obliges the user to     *)
(* start or to cancel a run.                                               *)
(***************************************************************************)
WorkerStep ==
    \/ WorkerLoad
    \/ WorkerCheckTemplate
    \/ WorkerGenerate
    \/ WorkerCheckCombo
    \/ WorkerWrite
    \/ WorkerFinish
    \/ WorkerExcept
    \/ WorkerFinally

SpecRunFair == InitRun /\ [][NextRun]_vars /\ WF_vars(WorkerStep)

(***************************************************************************)
(* C27: after start_generation returns True, the run eventually ends with  *)
(* is_running False and with on_complete or on_error invoked, whichever    *)
(* way the worker ends (all templates processed, an exception, a           *)
(* cancellation, or no template could be loaded).                          *)
(***************************************************************************)
C27_RunEndsWithCallback ==
    (w_pc = "load") ~>
        (w_pc = "idle" /\ ~is_running /\ (on_complete_invoked \/ on_error_invoked))

(***************************************************************************)
(* SpecStart: start_generation called by MaxCallers threads, one call      *)
(* each, interleaved statement by statement with each other, with          *)
(* cancel_generation and with the _run_internal threads they start.  No    *)
(* lock guards self._is_running.  A worker thread is reduced to what the   *)
(* callers can see of it: it counts what it processed and, in its finally  *)
(* block, clears the running flag and ends.                                *)
(***************************************************************************)
notStart == << resolveVars, configVars, comboVars, applyVars, batchVars, loadVars,
              templateVars, explainVars, statsVars, settingsVars >>

Callers == 1..MaxCallers

InitStart ==
    /\ is_running = FALSE
    /\ cancel_requested = FALSE
    /\ processed_count = 0
    /\ current_template_name = ""
    /\ total_templates = 0
    /\ template_files = << [name |-> "a.json", exists |-> TRUE, valid |-> << TRUE >>] >>
    /\ dry_run = FALSE
    /\ w_pc = "idle"
    /\ w_templates = << >>
    /\ w_tpl = 0
    /\ w_combos = << >>
    /\ w_combo = 0
    /\ writer_total = 0
    /\ writer_returned = 0
    /\ files = { }
    /\ runs = 0
    /\ run_written = << >>
    /\ on_complete_invoked = FALSE
    /\ on_error_invoked = FALSE
    /\ flag_at_check = FALSE
    /\ flag_at_raise = FALSE
    /\ c_pc = [c \in Callers |-> "idle"]
    /\ c_returned = [c \in Callers |-> "none"]
    /\ threads = 0
    /\ default_namespace = Minecraft
    /\ ResolveIdle
    /\ ConfigIdle
    /\ CombosIdle
    /\ ApplyIdle
    /\ BatchIdle
    /\ LoadIdle
    /\ TemplateIdle
    /\ ExplainIdle
    /\ StatsIdle
    /\ SettingsIdle

\* start_generation: `if self._is_running: ... return False`, then the
\* configuration test, which passes
CallCheck(c) ==
    /\ c_pc[c] = "idle"
    /\ IF is_running
       THEN /\ c_pc' = [c_pc EXCEPT ![c] = "returned"]
            /\ c_returned' = [c_returned EXCEPT ![c] = "False"]
       ELSE /\ c_pc' = [c_pc EXCEPT ![c] = "checked"]
            /\ UNCHANGED c_returned
    /\ UNCHANGED << serviceVars, workerVars, writerVars, runLogVars, threads, notStart >>

\* start_generation: the five assignments that reset the state
CallReset(c) ==
    /\ c_pc[c] = "checked"
    /\ is_running' = TRUE
    /\ cancel_requested' = FALSE
    /\ processed_count' = 0
    /\ current_template_name' = ""
    /\ total_templates' = Len(template_files)
    /\ c_pc' = [c_pc EXCEPT ![c] = "reset"]
    /\ UNCHANGED << template_files, dry_run, workerVars, writerVars, runLogVars,
                    c_returned, threads, notStart >>

\* start_generation: threading.Thread(target=self._run_internal, ...).start()
\* and `return True`
CallSpawn(c) ==
    /\ c_pc[c] = "reset"
    /\ threads' = threads + 1
    /\ runs' = runs + 1
    /\ c_pc' = [c_pc EXCEPT ![c] = "returned"]
    /\ c_returned' = [c_returned EXCEPT ![c] = "True"]
    /\ UNCHANGED << serviceVars, workerVars, writerVars, run_written, on_complete_invoked,
                    on_error_invoked, flag_at_check, flag_at_raise, notStart >>

\* a live _run_internal thread counts a combination or a template
ThreadProcess ==
    /\ threads > 0
    /\ processed_count < MaxCombos
    /\ processed_count' = processed_count + 1
    /\ UNCHANGED << is_running, cancel_requested, current_template_name, total_templates,
                    template_files, dry_run, workerVars, writerVars, runLogVars,
                    startVars, notStart >>

\* a live _run_internal thread runs its finally block and ends
ThreadFinally ==
    /\ threads > 0
    /\ is_running' = FALSE
    /\ current_template_name' = ""
    /\ threads' = threads - 1
    /\ UNCHANGED << cancel_requested, processed_count, total_templates, template_files,
                    dry_run, workerVars, writerVars, runLogVars, c_pc, c_returned,
                    notStart >>

NextStart ==
    \/ \E c \in Callers : CallCheck(c)
    \/ \E c \in Callers : CallReset(c)
    \/ \E c \in Callers : CallSpawn(c)
    \/ CancelGeneration
    \/ ThreadProcess
    \/ ThreadFinally

SpecStart == InitStart /\ [][NextStart]_vars

(***************************************************************************)
(* C26: at most one RecipeService generation worker is active at any time: *)
(* a start_generation call made while a run is active returns False        *)
(* without starting a worker, for every interleaving of two                *)
(* start_generation calls and of a start_generation call with the end of   *)
(* the previous run.                                                       *)
(***************************************************************************)
C26_SingleWorker ==
    threads <= 1

====
